---- MODULE Spec2Model ----
(***************************************************************************)
(* Model of codex.py: the Congress.gov request dispatcher                  *)
(* (make_congress_request), the module start-up that reads the API key,    *)
(* and the tool functions that delegate to the dispatcher.                 *)
(*                                                                         *)
(* Text is modelled as a sequence of tokens.  A token is either one of the *)
(* characters JSON treats specially (quote, backslash, braces, colon,      *)
(* comma, space), the byte BAD (a byte that is not valid UTF-8), the       *)
(* replacement character REPL, or an atom: a run of ordinary characters.   *)
(***************************************************************************)
EXTENDS Integers, Sequences, FiniteSets, TLC

\* ------------------------------------------------------------------ bounds
MaxCalls == 2          \* invocations that may be in flight at the same time
MaxInvocations == 2    \* invocations begun in one run of the server
ReadTimeoutTicks == 2  \* ticks of silence after which the read timeout expires

\* ----------------------------------------------------------------- state
VARIABLES
    environ,            \* os.environ's CONGRESS_API_KEY when the process starts
    phase,              \* "start", "crashed", "imported", "serving"
    CONGRESS_API_KEY,   \* the module global
    console,            \* lines printed by the module's top-level code
    calls,              \* per slot: the invocation in flight, if any
    done,               \* the invocation that ended last
    started,            \* number of invocations begun
    quiet               \* per slot: ticks since the awaited request last received data

vars == <<environ, phase, CONGRESS_API_KEY, console, calls, done, started, quiet>>

\* ------------------------------------------------------- Python values
PyNone == [ty |-> "None", v |-> "None"]
PyStr(s) == [ty |-> "str", v |-> s]
PyInt(s) == [ty |-> "int", v |-> s]
PyBool(s) == [ty |-> "bool", v |-> s]

\* Python truth value of an object, as used by `if x:` / `if not x:`
Truthy(x) ==
    CASE x.ty = "None" -> FALSE
      [] x.ty = "str"  -> x.v # ""
      [] x.ty = "int"  -> x.v # "0"
      [] x.ty = "bool" -> x.v = "True"

\* str(x), as used by f-strings
PyFormat(x) == x.v

\* An insertion-ordered dict is a sequence of <<key, value>> pairs.
DictKeys(d) == {d[i][1] : i \in 1..Len(d)}
DictHas(d, k) == \E i \in 1..Len(d) : d[i][1] = k
DictGet(d, k) == d[CHOOSE i \in 1..Len(d) : d[i][1] = k][2]
DictSet(d, k, val) ==
    IF DictHas(d, k)
    THEN [i \in 1..Len(d) |-> IF d[i][1] = k THEN <<k, val>> ELSE d[i]]
    ELSE Append(d, <<k, val>>)

\* dict.update, had it put the items of other in front of those of d
DictUpdatePrepend(d, other) ==
    LET Kept(item) == ~DictHas(other, item[1]) IN other \o SelectSeq(d, Kept)

\* dict.update(other): assigns other's items in order
RECURSIVE DictUpdate(_, _)
DictUpdate(d, other) ==
    IF other = <<>> THEN d
    ELSE DictUpdate(DictSet(d, other[1][1], other[1][2]), Tail(other))

\* --------------------------------------------------------------- tokens
Q == "\""
BS == "\\"
BAD == "<byte 0x80>"
REPL == "<U+FFFD>"
Literals == {"null", "true", "false", "0", "42"}

RECURSIVE Contains(_, _)
\* sub occurs in text as a contiguous run of tokens
Contains(text, sub) ==
    IF Len(sub) > Len(text) THEN FALSE
    ELSE \/ SubSeq(text, 1, Len(sub)) = sub
         \/ Contains(Tail(text), sub)

StartsWith(text, pre) ==
    Len(pre) <= Len(text) /\ SubSeq(text, 1, Len(pre)) = pre

\* ----------------------------------------------------------------- JSON
JStr(s) == [t |-> "str", s |-> s, m |-> <<>>]
JLit(tok) == [t |-> "lit", s |-> <<tok>>, m |-> <<>>]
JObj(m) == [t |-> "obj", s |-> <<>>, m |-> m]

RECURSIVE JsonEscape(_)
\* json.dumps of the characters of a string (ensure_ascii=True)
JsonEscape(s) ==
    IF s = <<>> THEN <<>>
    ELSE (CASE s[1] = Q    -> <<BS, Q>>
            [] s[1] = BS   -> <<BS, BS>>
            [] s[1] = REPL -> <<BS, "ufffd">>
            [] OTHER       -> <<s[1]>>) \o JsonEscape(Tail(s))

RECURSIVE JsonDumps(_)
RECURSIVE JsonDumpsItems(_)
\* json.dumps(value) with the default separators ", " and ": "
JsonDumps(val) ==
    CASE val.t = "str" -> <<Q>> \o JsonEscape(val.s) \o <<Q>>
      [] val.t = "lit" -> val.s
      [] val.t = "obj" -> <<"{">> \o JsonDumpsItems(val.m) \o <<"}">>

JsonDumpsItems(m) ==
    IF m = <<>> THEN <<>>
    ELSE <<Q>> \o JsonEscape(m[1][1]) \o <<Q, ":", " ">> \o JsonDumps(m[1][2])
         \o (IF Len(m) > 1 THEN <<",", " ">> \o JsonDumpsItems(Tail(m)) ELSE <<>>)

RECURSIVE SkipWs(_)
SkipWs(toks) ==
    IF toks # <<>> /\ toks[1] = " " THEN SkipWs(Tail(toks)) ELSE toks

ParseFail == [ok |-> FALSE, val |-> JLit("null"), rest |-> <<>>]
ParseOk(val, rest) == [ok |-> TRUE, val |-> val, rest |-> rest]

RECURSIVE ParseStringBody(_, _)
\* characters of a JSON string after the opening quote; acc is what was read
ParseStringBody(toks, acc) ==
    IF toks = <<>> THEN ParseFail
    ELSE CASE toks[1] = Q -> ParseOk(JStr(acc), Tail(toks))
           [] toks[1] = BS ->
                IF Len(toks) < 2 THEN ParseFail
                ELSE CASE toks[2] = Q  -> ParseStringBody(SubSeq(toks, 3, Len(toks)), Append(acc, Q))
                       [] toks[2] = BS -> ParseStringBody(SubSeq(toks, 3, Len(toks)), Append(acc, BS))
                       [] toks[2] = "ufffd" -> ParseStringBody(SubSeq(toks, 3, Len(toks)), Append(acc, REPL))
                       [] OTHER -> ParseFail
           [] OTHER -> ParseStringBody(Tail(toks), Append(acc, toks[1]))

RECURSIVE ParseValue(_)
RECURSIVE ParseMembers(_, _)
ParseValue(toks0) ==
    LET toks == SkipWs(toks0) IN
    IF toks = <<>> THEN ParseFail
    ELSE CASE toks[1] = Q -> ParseStringBody(Tail(toks), <<>>)
           [] toks[1] = "{" ->
                LET r == SkipWs(Tail(toks)) IN
                IF r # <<>> /\ r[1] = "}" THEN ParseOk(JObj(<<>>), Tail(r))
                ELSE ParseMembers(r, <<>>)
           [] toks[1] \in Literals -> ParseOk(JLit(toks[1]), Tail(toks))
           [] OTHER -> ParseFail

\* members of an object after "{" (or after ","); acc is the pairs read
ParseMembers(toks0, acc) ==
    LET toks == SkipWs(toks0) IN
    IF toks = <<>> \/ toks[1] # Q THEN ParseFail
    ELSE LET k == ParseStringBody(Tail(toks), <<>>) IN
         IF ~k.ok THEN ParseFail
         ELSE LET r1 == SkipWs(k.rest) IN
              IF r1 = <<>> \/ r1[1] # ":" THEN ParseFail
              ELSE LET pv == ParseValue(Tail(r1)) IN
                   IF ~pv.ok THEN ParseFail
                   ELSE LET r2 == SkipWs(pv.rest)
                            acc2 == DictSet(acc, k.val.s, pv.val)
                        IN IF r2 = <<>> THEN ParseFail
                           ELSE CASE r2[1] = "}" -> ParseOk(JObj(acc2), Tail(r2))
                                  [] r2[1] = "," -> ParseMembers(Tail(r2), acc2)
                                  [] OTHER -> ParseFail

\* json.loads of a text: the value, or JSONDecodeError
JsonLoads(text) ==
    LET r == ParseValue(text) IN
    IF r.ok /\ SkipWs(r.rest) = <<>>
    THEN [exc |-> "none", val |-> r.val]
    ELSE [exc |-> "JSONDecodeError", val |-> JLit("null")]

\* httpx Response.text: the body decoded with errors="replace"
ResponseText(body) ==
    [i \in 1..Len(body) |-> IF body[i] = BAD THEN REPL ELSE body[i]]

\* httpx Response.json(): json.loads of the body bytes; bytes that are not
\* valid UTF-8 raise UnicodeDecodeError (a ValueError, not a JSONDecodeError)
ResponseJson(body) ==
    IF \E i \in 1..Len(body) : body[i] = BAD
    THEN [exc |-> "UnicodeDecodeError", val |-> JLit("null")]
    ELSE JsonLoads(body)

\* raise_for_status() that lets every status below 400 pass
IsSuccessBelow400(status) == status < 400

\* httpx Response.is_success, the test raise_for_status() applies
IsSuccess(status) == 200 <= status /\ status <= 299

\* ------------------------------------------------------ module constants
CONGRESS_API_BASE == "https://api.congress.gov/v3"
USER_AGENT == "codex/1.0"
Timeout == 30

\* ------------------------------------------------------------- requests
NoParams == [none |-> TRUE, items |-> <<>>]
Params(items) == [none |-> FALSE, items |-> items]

\* `if params:` is false for None and for an empty dict
ParamsTruthy(params) == ~params.none /\ params.items # <<>>

\* httpx renders a query value: None as "", booleans in lower case, else str()
QueryValue(val) ==
    CASE val.ty = "None" -> ""
      [] val.ty = "bool" -> (IF val.v = "True" THEN "true" ELSE "false")
      [] OTHER -> val.v

\* percent-encoding of a query value ("+" and ":" are not safe in a query)
UrlQuote(s) ==
    CASE s = "updateDate+desc" -> "updateDate%2Bdesc"
      [] s = "updateDate+asc" -> "updateDate%2Basc"
      [] s = "2022-08-04T04:02:00Z" -> "2022-08-04T04%3A02%3A00Z"
      [] OTHER -> s

RECURSIVE QueryString(_)
QueryString(d) ==
    IF d = <<>> THEN <<>>
    ELSE <<d[1][1], "=", UrlQuote(QueryValue(d[1][2]))>>
         \o (IF Len(d) > 1 THEN <<"&">> \o QueryString(Tail(d)) ELSE <<>>)

\* the URL of the request httpx builds from url and params
RequestUrl(req) == <<req.url, "?">> \o QueryString(req.params)

\* repr() of a value and of the params argument, as print() shows them
PyRepr(val) == IF val.ty = "str" THEN "'" \o val.v \o "'" ELSE val.v

RECURSIVE ItemsRepr(_)
ItemsRepr(d) ==
    IF d = <<>> THEN <<>>
    ELSE <<"'" \o d[1][1] \o "'", ":", " ", PyRepr(d[1][2])>>
         \o (IF Len(d) > 1 THEN <<",", " ">> \o ItemsRepr(Tail(d)) ELSE <<>>)

ParamsRepr(params) ==
    IF params.none THEN <<"None">> ELSE <<"{">> \o ItemsRepr(params.items) \o <<"}">>

\* the error document, had it carried a second key
ErrorDocumentWithKind(detail) ==
    JsonDumps(JObj(<< <<<<"error">>, JStr(detail)>>, <<<<"kind">>, JStr(<<"error">>)>> >>))

\* json.dumps({"error": detail})
ErrorDocument(detail) == JsonDumps(JObj(<< <<<<"error">>, JStr(detail)>> >>))

\* ----------------------------------------------- outcome of a code block
\* Faults of the surroundings while a block of the dispatcher runs: creating
\* the client raises (create), a print raises (print1: the first print of the
\* block, print2: the print of the handler that caught print1's exception),
\* closing the client raises (close).
Fault(create, print1, print2, close) ==
    [create |-> create, print1 |-> print1, print2 |-> print2, close |-> close]
NoFault == Fault(FALSE, FALSE, FALSE, FALSE)
\* the faults that can show between the entry and the await of client.get
StartFaults == {NoFault, Fault(TRUE, FALSE, FALSE, FALSE), Fault(FALSE, TRUE, FALSE, FALSE),
                Fault(FALSE, TRUE, TRUE, FALSE), Fault(FALSE, TRUE, FALSE, TRUE)}
\* the faults that can show after the await of client.get
FinishFaults == {NoFault, Fault(FALSE, TRUE, FALSE, FALSE), Fault(FALSE, FALSE, FALSE, TRUE)}

\* kind tells which return statement produced the result: "body" (line 39)
\* or "error" (lines 23, 48, 52)
Awaiting(reqs, diag) ==
    [pc |-> "awaiting", kind |-> "", result |-> <<>>, exc |-> "",
     requests |-> reqs, diag |-> diag]
Returned(kind, text, reqs, diag) ==
    [pc |-> "returned", kind |-> kind, result |-> text, exc |-> "",
     requests |-> reqs, diag |-> diag]
Raised(exc, reqs, diag) ==
    [pc |-> "raised", kind |-> "", result |-> <<>>, exc |-> exc,
     requests |-> reqs, diag |-> diag]

\* leaving `async with httpx.AsyncClient()` with a return value pending
LeaveClient(kind, text, reqs, diag, f) ==
    IF f.close THEN Raised("CloseError", reqs, diag) ELSE Returned(kind, text, reqs, diag)

\* the handler, had the request been issued a second time after the failure
UnexpectedHandlerRetry(msg, printFails, reqs, diag, f) ==
    LET error_detail == <<"An unexpected error occurred: ">> \o msg
        line == <<"Error making Congress API request: ">> \o error_detail
    IN IF printFails THEN Raised("OSError", reqs \o reqs, diag)
       ELSE LeaveClient("error", ErrorDocument(error_detail), reqs \o reqs,
                        Append(diag, line), f)

\* `except Exception as exc` (lines 49-52); msg is str(exc)
UnexpectedHandler(msg, printFails, reqs, diag, f) ==
    LET error_detail == <<"An unexpected error occurred: ">> \o msg
        line == <<"Error making Congress API request: ">> \o error_detail
    IN IF printFails THEN Raised("OSError", reqs, diag)
       ELSE LeaveClient("error", ErrorDocument(error_detail), reqs, Append(diag, line), f)

\* error_detail, had it always embedded the raw response text
HttpErrorDetailRawOnly(req, resp, parsed) ==
    <<"HTTP error ", ToString(resp.status), " while requesting ", "URL('">>
    \o RequestUrl(req) \o <<"')", ".", " Response body: ">> \o ResponseText(resp.body)

\* error_detail as lines 41-46 build it; parsed is the outcome of response.json()
HttpErrorDetail(req, resp, parsed) ==
    LET head == <<"HTTP error ", ToString(resp.status), " while requesting ", "URL('">>
                \o RequestUrl(req) \o <<"')", ".">>
    IN IF parsed.exc = "none"
       THEN head \o <<" Response: ">> \o JsonDumps(parsed.val)
       ELSE head \o <<" Response body: ">> \o ResponseText(resp.body)

\* the exceptions of response.json() that `except json.JSONDecodeError` catches
CaughtByDecodeHandler(exc) == exc = "JSONDecodeError"

\* `except httpx.HTTPStatusError as exc` (lines 40-48)
StatusHandler(req, resp, reqs, diag, f) ==
    LET parsed == ResponseJson(resp.body)
        error_detail == HttpErrorDetail(req, resp, parsed)
        line == <<"Error making Congress API request: ">> \o error_detail
    IN IF parsed.exc # "none" /\ ~CaughtByDecodeHandler(parsed.exc)
       THEN Raised(parsed.exc, reqs, diag)
       ELSE IF f.print1 THEN Raised("OSError", reqs, diag)
       ELSE LeaveClient("error", ErrorDocument(error_detail), reqs, Append(diag, line), f)

\* the credential test, had it looked only at what the process started with
KeyMissingAtStart(key) == ~Truthy(environ)

\* `if not CONGRESS_API_KEY:` (line 22), evaluated in each call
KeyMissing(key) == ~Truthy(key)

\* full_params, had the module numbered its requests in a counter it keeps
FullParamsNumbered(key, params) ==
    LET full_params == << <<"api_key", key>>, <<"seq", PyInt(ToString(started))>> >>
    IN IF ParamsTruthy(params) THEN DictUpdate(full_params, params.items) ELSE full_params

\* full_params as lines 26-28 build it
FullParams(key, params) ==
    LET full_params == << <<"api_key", key>> >>
    IN IF ParamsTruthy(params) THEN DictUpdate(full_params, params.items) ELSE full_params

\* the success path, had it parsed the body and serialized it again
SuccessReturnReserialized(resp) ==
    LET parsed == ResponseJson(resp.body)
    IN IF parsed.exc = "none" THEN JsonDumps(parsed.val) ELSE ResponseText(resp.body)

\* `return response.text` (line 39)
SuccessReturn(resp) == ResponseText(resp.body)

\* make_congress_request from its entry to the await of client.get (lines 22-36)
DispatchStart(key, endpoint, params, f) ==
    IF KeyMissing(key)
    THEN Returned("error", ErrorDocument(<<"API key is not configured.">>), <<>>, <<>>)
    ELSE LET headers == << <<"Accept", "application/json">>, <<"User-Agent", USER_AGENT>> >>
             full_params == FullParams(key, params)
             url == CONGRESS_API_BASE \o endpoint
             req == [url |-> url, headers |-> headers, params |-> full_params,
                     timeout |-> Timeout]
             line == <<"Making request to: ", url, " with params: ">> \o ParamsRepr(params)
         IN IF f.create THEN Raised("ClientInitError", <<>>, <<>>)
            ELSE IF f.print1
                 THEN UnexpectedHandler(<<"[Errno 32] Broken pipe">>, f.print2, <<>>, <<>>, f)
                 ELSE Awaiting(<<req>>, <<line>>)

\* make_congress_request from the completion of client.get to its end
\* (lines 35-52); net is what the await produced
DispatchFinish(req, net, reqs, diag, f) ==
    CASE net.kind = "cancel" -> Raised("CancelledError", reqs, diag)
      [] net.kind = "error" -> UnexpectedHandler(net.msg, f.print1, reqs, diag, f)
      [] net.kind = "response" ->
            IF IsSuccess(net.status)
            THEN LeaveClient("body", SuccessReturn(net), reqs, diag, f)
            ELSE StatusHandler(req, net, reqs, diag, f)

\* ---------------------------------------------------------------- tools
\* A tool function evaluated up to its call of make_congress_request: the
\* endpoint and the params it passes.
Call(tool, endpoint, params) == [tool |-> tool, endpoint |-> endpoint, params |-> params]

\* A tool invocation: the arguments the host passed, in the order the
\* signature declares them, with the endpoint and params the tool passes on.
Invocation(tool, args, endpoint, params) ==
    [tool |-> tool, args |-> args, endpoint |-> endpoint, params |-> params]

\* str(x) as an object
PyStrOf(x) == PyStr(PyFormat(x))

\* x.lower() of a str object (the strings the tools call it on)
StrLower(x) ==
    PyStr(CASE x.v = "True" -> "true"
            [] x.v = "False" -> "false"
            [] OTHER -> x.v)

\* The tool functions, in the order of the source.
list_amendments(limit, offset, fromDateTime, toDateTime) ==
    LET p0 == << <<"limit", limit>>, <<"offset", offset>> >>
        p1 == IF Truthy(fromDateTime) THEN DictSet(p0, "fromDateTime", fromDateTime) ELSE p0
        p2 == IF Truthy(toDateTime) THEN DictSet(p1, "toDateTime", toDateTime) ELSE p1
    IN Invocation("list_amendments",
                  << <<"limit", limit>>, <<"offset", offset>>, <<"fromDateTime", fromDateTime>>, <<"toDateTime", toDateTime>> >>,
                  "/amendment",
                  Params(p2))

list_amendments_by_congress(congress, limit, offset, fromDateTime, toDateTime) ==
    LET p0 == << <<"limit", limit>>, <<"offset", offset>> >>
        p1 == IF Truthy(fromDateTime) THEN DictSet(p0, "fromDateTime", fromDateTime) ELSE p0
        p2 == IF Truthy(toDateTime) THEN DictSet(p1, "toDateTime", toDateTime) ELSE p1
    IN Invocation("list_amendments_by_congress",
                  << <<"congress", congress>>, <<"limit", limit>>, <<"offset", offset>>, <<"fromDateTime", fromDateTime>>, <<"toDateTime", toDateTime>> >>,
                  "/amendment/" \o PyFormat(congress),
                  Params(p2))

list_amendments_by_type(congress, amendmentType, limit, offset, fromDateTime, toDateTime) ==
    LET p0 == << <<"limit", limit>>, <<"offset", offset>> >>
        p1 == IF Truthy(fromDateTime) THEN DictSet(p0, "fromDateTime", fromDateTime) ELSE p0
        p2 == IF Truthy(toDateTime) THEN DictSet(p1, "toDateTime", toDateTime) ELSE p1
    IN Invocation("list_amendments_by_type",
                  << <<"congress", congress>>, <<"amendmentType", amendmentType>>, <<"limit", limit>>, <<"offset", offset>>, <<"fromDateTime", fromDateTime>>, <<"toDateTime", toDateTime>> >>,
                  "/amendment/" \o PyFormat(congress) \o "/" \o PyFormat(amendmentType),
                  Params(p2))

get_amendment_details(congress, amendmentType, amendmentNumber) ==
    Invocation("get_amendment_details",
               << <<"congress", congress>>, <<"amendmentType", amendmentType>>, <<"amendmentNumber", amendmentNumber>> >>,
               "/amendment/" \o PyFormat(congress) \o "/" \o PyFormat(amendmentType) \o "/" \o PyFormat(amendmentNumber),
               NoParams)

get_amendment_actions(congress, amendmentType, amendmentNumber, limit, offset) ==
    LET p0 == << <<"limit", limit>>, <<"offset", offset>> >>
    IN Invocation("get_amendment_actions",
                  << <<"congress", congress>>, <<"amendmentType", amendmentType>>, <<"amendmentNumber", amendmentNumber>>, <<"limit", limit>>, <<"offset", offset>> >>,
                  "/amendment/" \o PyFormat(congress) \o "/" \o PyFormat(amendmentType) \o "/" \o PyFormat(amendmentNumber) \o "/actions",
                  Params(p0))

get_amendment_cosponsors(congress, amendmentType, amendmentNumber, limit, offset) ==
    LET p0 == << <<"limit", limit>>, <<"offset", offset>> >>
    IN Invocation("get_amendment_cosponsors",
                  << <<"congress", congress>>, <<"amendmentType", amendmentType>>, <<"amendmentNumber", amendmentNumber>>, <<"limit", limit>>, <<"offset", offset>> >>,
                  "/amendment/" \o PyFormat(congress) \o "/" \o PyFormat(amendmentType) \o "/" \o PyFormat(amendmentNumber) \o "/cosponsors",
                  Params(p0))

get_amendments_to_amendment(congress, amendmentType, amendmentNumber, limit, offset) ==
    LET p0 == << <<"limit", limit>>, <<"offset", offset>> >>
    IN Invocation("get_amendments_to_amendment",
                  << <<"congress", congress>>, <<"amendmentType", amendmentType>>, <<"amendmentNumber", amendmentNumber>>, <<"limit", limit>>, <<"offset", offset>> >>,
                  "/amendment/" \o PyFormat(congress) \o "/" \o PyFormat(amendmentType) \o "/" \o PyFormat(amendmentNumber) \o "/amendments",
                  Params(p0))

get_amendment_text(congress, amendmentType, amendmentNumber, limit, offset) ==
    LET p0 == << <<"limit", limit>>, <<"offset", offset>> >>
    IN Invocation("get_amendment_text",
                  << <<"congress", congress>>, <<"amendmentType", amendmentType>>, <<"amendmentNumber", amendmentNumber>>, <<"limit", limit>>, <<"offset", offset>> >>,
                  "/amendment/" \o PyFormat(congress) \o "/" \o PyFormat(amendmentType) \o "/" \o PyFormat(amendmentNumber) \o "/text",
                  Params(p0))

\* list_bills, had it assigned params["sort"] without testing sort
list_bills_always_sort(limit, offset, fromDateTime, toDateTime, sort) ==
    LET p0 == << <<"limit", limit>>, <<"offset", offset>> >>
        p1 == IF Truthy(fromDateTime) THEN DictSet(p0, "fromDateTime", fromDateTime) ELSE p0
        p2 == IF Truthy(toDateTime) THEN DictSet(p1, "toDateTime", toDateTime) ELSE p1
        p3 == DictSet(p2, "sort", sort)
    IN Invocation("list_bills",
                  << <<"limit", limit>>, <<"offset", offset>>, <<"fromDateTime", fromDateTime>>, <<"toDateTime", toDateTime>>, <<"sort", sort>> >>,
                  "/bill",
                  Params(p3))

list_bills(limit, offset, fromDateTime, toDateTime, sort) ==
    LET p0 == << <<"limit", limit>>, <<"offset", offset>> >>
        p1 == IF Truthy(fromDateTime) THEN DictSet(p0, "fromDateTime", fromDateTime) ELSE p0
        p2 == IF Truthy(toDateTime) THEN DictSet(p1, "toDateTime", toDateTime) ELSE p1
        p3 == IF Truthy(sort) THEN DictSet(p2, "sort", sort) ELSE p2
    IN Invocation("list_bills",
                  << <<"limit", limit>>, <<"offset", offset>>, <<"fromDateTime", fromDateTime>>, <<"toDateTime", toDateTime>>, <<"sort", sort>> >>,
                  "/bill",
                  Params(p3))

list_bills_by_congress(congress, limit, offset, fromDateTime, toDateTime, sort) ==
    LET p0 == << <<"limit", limit>>, <<"offset", offset>> >>
        p1 == IF Truthy(fromDateTime) THEN DictSet(p0, "fromDateTime", fromDateTime) ELSE p0
        p2 == IF Truthy(toDateTime) THEN DictSet(p1, "toDateTime", toDateTime) ELSE p1
        p3 == IF Truthy(sort) THEN DictSet(p2, "sort", sort) ELSE p2
    IN Invocation("list_bills_by_congress",
                  << <<"congress", congress>>, <<"limit", limit>>, <<"offset", offset>>, <<"fromDateTime", fromDateTime>>, <<"toDateTime", toDateTime>>, <<"sort", sort>> >>,
                  "/bill/" \o PyFormat(congress),
                  Params(p3))

list_bills_by_type(congress, billType, limit, offset, fromDateTime, toDateTime, sort) ==
    LET p0 == << <<"limit", limit>>, <<"offset", offset>> >>
        p1 == IF Truthy(fromDateTime) THEN DictSet(p0, "fromDateTime", fromDateTime) ELSE p0
        p2 == IF Truthy(toDateTime) THEN DictSet(p1, "toDateTime", toDateTime) ELSE p1
        p3 == IF Truthy(sort) THEN DictSet(p2, "sort", sort) ELSE p2
    IN Invocation("list_bills_by_type",
                  << <<"congress", congress>>, <<"billType", billType>>, <<"limit", limit>>, <<"offset", offset>>, <<"fromDateTime", fromDateTime>>, <<"toDateTime", toDateTime>>, <<"sort", sort>> >>,
                  "/bill/" \o PyFormat(congress) \o "/" \o PyFormat(billType),
                  Params(p3))

\* get_bill_details, had its template named billNumber before billType
get_bill_details_swapped(congress, billType, billNumber) ==
    Invocation("get_bill_details",
               << <<"congress", congress>>, <<"billType", billType>>, <<"billNumber", billNumber>> >>,
               "/bill/" \o PyFormat(congress) \o "/" \o PyFormat(billNumber) \o "/" \o PyFormat(billType),
               NoParams)

get_bill_details(congress, billType, billNumber) ==
    Invocation("get_bill_details",
               << <<"congress", congress>>, <<"billType", billType>>, <<"billNumber", billNumber>> >>,
               "/bill/" \o PyFormat(congress) \o "/" \o PyFormat(billType) \o "/" \o PyFormat(billNumber),
               NoParams)

\* get_bill_actions, had it put the suffix before the bill number
get_bill_actions_before_number(congress, billType, billNumber, limit, offset) ==
    LET p0 == << <<"limit", limit>>, <<"offset", offset>> >>
    IN Invocation("get_bill_actions",
                  << <<"congress", congress>>, <<"billType", billType>>, <<"billNumber", billNumber>>, <<"limit", limit>>, <<"offset", offset>> >>,
                  "/bill/" \o PyFormat(congress) \o "/" \o PyFormat(billType) \o "/" \o "actions/" \o PyFormat(billNumber),
                  Params(p0))

get_bill_actions(congress, billType, billNumber, limit, offset) ==
    LET p0 == << <<"limit", limit>>, <<"offset", offset>> >>
    IN Invocation("get_bill_actions",
                  << <<"congress", congress>>, <<"billType", billType>>, <<"billNumber", billNumber>>, <<"limit", limit>>, <<"offset", offset>> >>,
                  "/bill/" \o PyFormat(congress) \o "/" \o PyFormat(billType) \o "/" \o PyFormat(billNumber) \o "/actions",
                  Params(p0))

get_bill_amendments(congress, billType, billNumber, limit, offset) ==
    LET p0 == << <<"limit", limit>>, <<"offset", offset>> >>
    IN Invocation("get_bill_amendments",
                  << <<"congress", congress>>, <<"billType", billType>>, <<"billNumber", billNumber>>, <<"limit", limit>>, <<"offset", offset>> >>,
                  "/bill/" \o PyFormat(congress) \o "/" \o PyFormat(billType) \o "/" \o PyFormat(billNumber) \o "/amendments",
                  Params(p0))

get_bill_committees(congress, billType, billNumber, limit, offset) ==
    LET p0 == << <<"limit", limit>>, <<"offset", offset>> >>
    IN Invocation("get_bill_committees",
                  << <<"congress", congress>>, <<"billType", billType>>, <<"billNumber", billNumber>>, <<"limit", limit>>, <<"offset", offset>> >>,
                  "/bill/" \o PyFormat(congress) \o "/" \o PyFormat(billType) \o "/" \o PyFormat(billNumber) \o "/committees",
                  Params(p0))

get_bill_cosponsors(congress, billType, billNumber, limit, offset) ==
    LET p0 == << <<"limit", limit>>, <<"offset", offset>> >>
    IN Invocation("get_bill_cosponsors",
                  << <<"congress", congress>>, <<"billType", billType>>, <<"billNumber", billNumber>>, <<"limit", limit>>, <<"offset", offset>> >>,
                  "/bill/" \o PyFormat(congress) \o "/" \o PyFormat(billType) \o "/" \o PyFormat(billNumber) \o "/cosponsors",
                  Params(p0))

get_bill_related_bills(congress, billType, billNumber, limit, offset) ==
    LET p0 == << <<"limit", limit>>, <<"offset", offset>> >>
    IN Invocation("get_bill_related_bills",
                  << <<"congress", congress>>, <<"billType", billType>>, <<"billNumber", billNumber>>, <<"limit", limit>>, <<"offset", offset>> >>,
                  "/bill/" \o PyFormat(congress) \o "/" \o PyFormat(billType) \o "/" \o PyFormat(billNumber) \o "/relatedbills",
                  Params(p0))

get_bill_subjects(congress, billType, billNumber, limit, offset) ==
    LET p0 == << <<"limit", limit>>, <<"offset", offset>> >>
    IN Invocation("get_bill_subjects",
                  << <<"congress", congress>>, <<"billType", billType>>, <<"billNumber", billNumber>>, <<"limit", limit>>, <<"offset", offset>> >>,
                  "/bill/" \o PyFormat(congress) \o "/" \o PyFormat(billType) \o "/" \o PyFormat(billNumber) \o "/subjects",
                  Params(p0))

get_bill_summaries(congress, billType, billNumber, limit, offset) ==
    LET p0 == << <<"limit", limit>>, <<"offset", offset>> >>
    IN Invocation("get_bill_summaries",
                  << <<"congress", congress>>, <<"billType", billType>>, <<"billNumber", billNumber>>, <<"limit", limit>>, <<"offset", offset>> >>,
                  "/bill/" \o PyFormat(congress) \o "/" \o PyFormat(billType) \o "/" \o PyFormat(billNumber) \o "/summaries",
                  Params(p0))

get_bill_text(congress, billType, billNumber, limit, offset) ==
    LET p0 == << <<"limit", limit>>, <<"offset", offset>> >>
    IN Invocation("get_bill_text",
                  << <<"congress", congress>>, <<"billType", billType>>, <<"billNumber", billNumber>>, <<"limit", limit>>, <<"offset", offset>> >>,
                  "/bill/" \o PyFormat(congress) \o "/" \o PyFormat(billType) \o "/" \o PyFormat(billNumber) \o "/text",
                  Params(p0))

get_bill_titles(congress, billType, billNumber, limit, offset) ==
    LET p0 == << <<"limit", limit>>, <<"offset", offset>> >>
    IN Invocation("get_bill_titles",
                  << <<"congress", congress>>, <<"billType", billType>>, <<"billNumber", billNumber>>, <<"limit", limit>>, <<"offset", offset>> >>,
                  "/bill/" \o PyFormat(congress) \o "/" \o PyFormat(billType) \o "/" \o PyFormat(billNumber) \o "/titles",
                  Params(p0))

list_committees(limit, offset, chamber) ==
    LET p0 == << <<"limit", limit>>, <<"offset", offset>> >>
        p1 == IF Truthy(chamber) THEN DictSet(p0, "chamber", chamber) ELSE p0
    IN Invocation("list_committees",
                  << <<"limit", limit>>, <<"offset", offset>>, <<"chamber", chamber>> >>,
                  "/committee",
                  Params(p1))

\* list_committees_by_chamber, had it replaced a chamber it does not know
list_committees_by_chamber_known(chamber, limit, offset) ==
    LET p0 == << <<"limit", limit>>, <<"offset", offset>> >>
        known == IF chamber.v \in {"house", "senate", "joint"} THEN chamber ELSE PyStr("house")
    IN Invocation("list_committees_by_chamber",
                  << <<"chamber", chamber>>, <<"limit", limit>>, <<"offset", offset>> >>,
                  "/committee/" \o PyFormat(known),
                  Params(p0))

list_committees_by_chamber(chamber, limit, offset) ==
    LET p0 == << <<"limit", limit>>, <<"offset", offset>> >>
    IN Invocation("list_committees_by_chamber",
                  << <<"chamber", chamber>>, <<"limit", limit>>, <<"offset", offset>> >>,
                  "/committee/" \o PyFormat(chamber),
                  Params(p0))

get_committee_details(chamber, committeeCode) ==
    Invocation("get_committee_details",
               << <<"chamber", chamber>>, <<"committeeCode", committeeCode>> >>,
               "/committee/" \o PyFormat(chamber) \o "/" \o PyFormat(committeeCode),
               NoParams)

get_committee_bills(chamber, committeeCode, limit, offset) ==
    LET p0 == << <<"limit", limit>>, <<"offset", offset>> >>
    IN Invocation("get_committee_bills",
                  << <<"chamber", chamber>>, <<"committeeCode", committeeCode>>, <<"limit", limit>>, <<"offset", offset>> >>,
                  "/committee/" \o PyFormat(chamber) \o "/" \o PyFormat(committeeCode) \o "/bills",
                  Params(p0))

get_committee_members(chamber, committeeCode, limit, offset) ==
    LET p0 == << <<"limit", limit>>, <<"offset", offset>> >>
    IN Invocation("get_committee_members",
                  << <<"chamber", chamber>>, <<"committeeCode", committeeCode>>, <<"limit", limit>>, <<"offset", offset>> >>,
                  "/committee/" \o PyFormat(chamber) \o "/" \o PyFormat(committeeCode) \o "/members",
                  Params(p0))

list_committee_reports(limit, offset, fromDateTime, toDateTime) ==
    LET p0 == << <<"limit", limit>>, <<"offset", offset>> >>
        p1 == IF Truthy(fromDateTime) THEN DictSet(p0, "fromDateTime", fromDateTime) ELSE p0
        p2 == IF Truthy(toDateTime) THEN DictSet(p1, "toDateTime", toDateTime) ELSE p1
    IN Invocation("list_committee_reports",
                  << <<"limit", limit>>, <<"offset", offset>>, <<"fromDateTime", fromDateTime>>, <<"toDateTime", toDateTime>> >>,
                  "/committee-report",
                  Params(p2))

list_committee_reports_by_congress(congress, limit, offset, fromDateTime, toDateTime, conference) ==
    LET p0 == << <<"limit", limit>>, <<"offset", offset>> >>
        p1 == IF Truthy(fromDateTime) THEN DictSet(p0, "fromDateTime", fromDateTime) ELSE p0
        p2 == IF Truthy(toDateTime) THEN DictSet(p1, "toDateTime", toDateTime) ELSE p1
        p3 == IF conference # PyNone THEN DictSet(p2, "conference", StrLower(PyStrOf(conference))) ELSE p2
    IN Invocation("list_committee_reports_by_congress",
                  << <<"congress", congress>>, <<"limit", limit>>, <<"offset", offset>>, <<"fromDateTime", fromDateTime>>, <<"toDateTime", toDateTime>>, <<"conference", conference>> >>,
                  "/committee-report/" \o PyFormat(congress),
                  Params(p3))

list_committee_reports_by_type(congress, reportType, limit, offset, fromDateTime, toDateTime) ==
    LET p0 == << <<"limit", limit>>, <<"offset", offset>> >>
        p1 == IF Truthy(fromDateTime) THEN DictSet(p0, "fromDateTime", fromDateTime) ELSE p0
        p2 == IF Truthy(toDateTime) THEN DictSet(p1, "toDateTime", toDateTime) ELSE p1
    IN Invocation("list_committee_reports_by_type",
                  << <<"congress", congress>>, <<"reportType", reportType>>, <<"limit", limit>>, <<"offset", offset>>, <<"fromDateTime", fromDateTime>>, <<"toDateTime", toDateTime>> >>,
                  "/committee-report/" \o PyFormat(congress) \o "/" \o PyFormat(reportType),
                  Params(p2))

get_committee_report_details(congress, reportType, reportNumber) ==
    Invocation("get_committee_report_details",
               << <<"congress", congress>>, <<"reportType", reportType>>, <<"reportNumber", reportNumber>> >>,
               "/committee-report/" \o PyFormat(congress) \o "/" \o PyFormat(reportType) \o "/" \o PyFormat(reportNumber),
               NoParams)

list_committee_prints(limit, offset, fromDateTime, toDateTime) ==
    LET p0 == << <<"limit", limit>>, <<"offset", offset>> >>
        p1 == IF Truthy(fromDateTime) THEN DictSet(p0, "fromDateTime", fromDateTime) ELSE p0
        p2 == IF Truthy(toDateTime) THEN DictSet(p1, "toDateTime", toDateTime) ELSE p1
    IN Invocation("list_committee_prints",
                  << <<"limit", limit>>, <<"offset", offset>>, <<"fromDateTime", fromDateTime>>, <<"toDateTime", toDateTime>> >>,
                  "/committee-print",
                  Params(p2))

list_committee_prints_by_congress(congress, limit, offset, fromDateTime, toDateTime) ==
    LET p0 == << <<"limit", limit>>, <<"offset", offset>> >>
        p1 == IF Truthy(fromDateTime) THEN DictSet(p0, "fromDateTime", fromDateTime) ELSE p0
        p2 == IF Truthy(toDateTime) THEN DictSet(p1, "toDateTime", toDateTime) ELSE p1
    IN Invocation("list_committee_prints_by_congress",
                  << <<"congress", congress>>, <<"limit", limit>>, <<"offset", offset>>, <<"fromDateTime", fromDateTime>>, <<"toDateTime", toDateTime>> >>,
                  "/committee-print/" \o PyFormat(congress),
                  Params(p2))

list_committee_prints_by_chamber(congress, chamber, limit, offset, fromDateTime, toDateTime) ==
    LET p0 == << <<"limit", limit>>, <<"offset", offset>> >>
        p1 == IF Truthy(fromDateTime) THEN DictSet(p0, "fromDateTime", fromDateTime) ELSE p0
        p2 == IF Truthy(toDateTime) THEN DictSet(p1, "toDateTime", toDateTime) ELSE p1
    IN Invocation("list_committee_prints_by_chamber",
                  << <<"congress", congress>>, <<"chamber", chamber>>, <<"limit", limit>>, <<"offset", offset>>, <<"fromDateTime", fromDateTime>>, <<"toDateTime", toDateTime>> >>,
                  "/committee-print/" \o PyFormat(congress) \o "/" \o PyFormat(chamber),
                  Params(p2))

get_committee_print_details(congress, chamber, jacketNumber) ==
    Invocation("get_committee_print_details",
               << <<"congress", congress>>, <<"chamber", chamber>>, <<"jacketNumber", jacketNumber>> >>,
               "/committee-print/" \o PyFormat(congress) \o "/" \o PyFormat(chamber) \o "/" \o PyFormat(jacketNumber),
               NoParams)

list_committee_meetings(limit, offset, fromDateTime, toDateTime) ==
    LET p0 == << <<"limit", limit>>, <<"offset", offset>> >>
        p1 == IF Truthy(fromDateTime) THEN DictSet(p0, "fromDateTime", fromDateTime) ELSE p0
        p2 == IF Truthy(toDateTime) THEN DictSet(p1, "toDateTime", toDateTime) ELSE p1
    IN Invocation("list_committee_meetings",
                  << <<"limit", limit>>, <<"offset", offset>>, <<"fromDateTime", fromDateTime>>, <<"toDateTime", toDateTime>> >>,
                  "/committee-meeting",
                  Params(p2))

list_committee_meetings_by_congress(congress, limit, offset, fromDateTime, toDateTime) ==
    LET p0 == << <<"limit", limit>>, <<"offset", offset>> >>
        p1 == IF Truthy(fromDateTime) THEN DictSet(p0, "fromDateTime", fromDateTime) ELSE p0
        p2 == IF Truthy(toDateTime) THEN DictSet(p1, "toDateTime", toDateTime) ELSE p1
    IN Invocation("list_committee_meetings_by_congress",
                  << <<"congress", congress>>, <<"limit", limit>>, <<"offset", offset>>, <<"fromDateTime", fromDateTime>>, <<"toDateTime", toDateTime>> >>,
                  "/committee-meeting/" \o PyFormat(congress),
                  Params(p2))

list_committee_meetings_by_chamber(congress, chamber, limit, offset, fromDateTime, toDateTime) ==
    LET p0 == << <<"limit", limit>>, <<"offset", offset>> >>
        p1 == IF Truthy(fromDateTime) THEN DictSet(p0, "fromDateTime", fromDateTime) ELSE p0
        p2 == IF Truthy(toDateTime) THEN DictSet(p1, "toDateTime", toDateTime) ELSE p1
    IN Invocation("list_committee_meetings_by_chamber",
                  << <<"congress", congress>>, <<"chamber", chamber>>, <<"limit", limit>>, <<"offset", offset>>, <<"fromDateTime", fromDateTime>>, <<"toDateTime", toDateTime>> >>,
                  "/committee-meeting/" \o PyFormat(congress) \o "/" \o PyFormat(chamber),
                  Params(p2))

get_committee_meeting_details(congress, chamber, eventId) ==
    Invocation("get_committee_meeting_details",
               << <<"congress", congress>>, <<"chamber", chamber>>, <<"eventId", eventId>> >>,
               "/committee-meeting/" \o PyFormat(congress) \o "/" \o PyFormat(chamber) \o "/" \o PyFormat(eventId),
               NoParams)

\* list_members, had it tested `if currentMember:` as the string filters do
list_members_if_truthy(limit, offset, fromDateTime, toDateTime, currentMember) ==
    LET p0 == << <<"limit", limit>>, <<"offset", offset>> >>
        p1 == IF Truthy(fromDateTime) THEN DictSet(p0, "fromDateTime", fromDateTime) ELSE p0
        p2 == IF Truthy(toDateTime) THEN DictSet(p1, "toDateTime", toDateTime) ELSE p1
        p3 == IF Truthy(currentMember) THEN DictSet(p2, "currentMember", StrLower(PyStrOf(currentMember))) ELSE p2
    IN Invocation("list_members",
                  << <<"limit", limit>>, <<"offset", offset>>, <<"fromDateTime", fromDateTime>>, <<"toDateTime", toDateTime>>, <<"currentMember", currentMember>> >>,
                  "/member",
                  Params(p3))

list_members(limit, offset, fromDateTime, toDateTime, currentMember) ==
    LET p0 == << <<"limit", limit>>, <<"offset", offset>> >>
        p1 == IF Truthy(fromDateTime) THEN DictSet(p0, "fromDateTime", fromDateTime) ELSE p0
        p2 == IF Truthy(toDateTime) THEN DictSet(p1, "toDateTime", toDateTime) ELSE p1
        p3 == IF currentMember # PyNone THEN DictSet(p2, "currentMember", StrLower(PyStrOf(currentMember))) ELSE p2
    IN Invocation("list_members",
                  << <<"limit", limit>>, <<"offset", offset>>, <<"fromDateTime", fromDateTime>>, <<"toDateTime", toDateTime>>, <<"currentMember", currentMember>> >>,
                  "/member",
                  Params(p3))

get_member_details(bioguideId) ==
    Invocation("get_member_details",
               << <<"bioguideId", bioguideId>> >>,
               "/member/" \o PyFormat(bioguideId),
               NoParams)

get_member_sponsored_legislation(bioguideId, limit, offset) ==
    LET p0 == << <<"limit", limit>>, <<"offset", offset>> >>
    IN Invocation("get_member_sponsored_legislation",
                  << <<"bioguideId", bioguideId>>, <<"limit", limit>>, <<"offset", offset>> >>,
                  "/member/" \o PyFormat(bioguideId) \o "/sponsored-legislation",
                  Params(p0))

get_member_cosponsored_legislation(bioguideId, limit, offset) ==
    LET p0 == << <<"limit", limit>>, <<"offset", offset>> >>
    IN Invocation("get_member_cosponsored_legislation",
                  << <<"bioguideId", bioguideId>>, <<"limit", limit>>, <<"offset", offset>> >>,
                  "/member/" \o PyFormat(bioguideId) \o "/cosponsored-legislation",
                  Params(p0))

list_members_by_congress(congress, limit, offset) ==
    LET p0 == << <<"limit", limit>>, <<"offset", offset>> >>
    IN Invocation("list_members_by_congress",
                  << <<"congress", congress>>, <<"limit", limit>>, <<"offset", offset>> >>,
                  "/member/congress/" \o PyFormat(congress),
                  Params(p0))

list_nominations(limit, offset) ==
    LET p0 == << <<"limit", limit>>, <<"offset", offset>> >>
    IN Invocation("list_nominations",
                  << <<"limit", limit>>, <<"offset", offset>> >>,
                  "/nomination",
                  Params(p0))

list_nominations_by_congress(congress, limit, offset) ==
    LET p0 == << <<"limit", limit>>, <<"offset", offset>> >>
    IN Invocation("list_nominations_by_congress",
                  << <<"congress", congress>>, <<"limit", limit>>, <<"offset", offset>> >>,
                  "/nomination/" \o PyFormat(congress),
                  Params(p0))

get_nomination_details(congress, nominationNumber) ==
    Invocation("get_nomination_details",
               << <<"congress", congress>>, <<"nominationNumber", nominationNumber>> >>,
               "/nomination/" \o PyFormat(congress) \o "/" \o PyFormat(nominationNumber),
               NoParams)

get_nomination_actions(congress, nominationNumber, limit, offset) ==
    LET p0 == << <<"limit", limit>>, <<"offset", offset>> >>
    IN Invocation("get_nomination_actions",
                  << <<"congress", congress>>, <<"nominationNumber", nominationNumber>>, <<"limit", limit>>, <<"offset", offset>> >>,
                  "/nomination/" \o PyFormat(congress) \o "/" \o PyFormat(nominationNumber) \o "/actions",
                  Params(p0))

list_treaties(limit, offset) ==
    LET p0 == << <<"limit", limit>>, <<"offset", offset>> >>
    IN Invocation("list_treaties",
                  << <<"limit", limit>>, <<"offset", offset>> >>,
                  "/treaty",
                  Params(p0))

list_treaties_by_congress(congress, limit, offset) ==
    LET p0 == << <<"limit", limit>>, <<"offset", offset>> >>
    IN Invocation("list_treaties_by_congress",
                  << <<"congress", congress>>, <<"limit", limit>>, <<"offset", offset>> >>,
                  "/treaty/" \o PyFormat(congress),
                  Params(p0))

get_treaty_details(congress, treatyNumber) ==
    Invocation("get_treaty_details",
               << <<"congress", congress>>, <<"treatyNumber", treatyNumber>> >>,
               "/treaty/" \o PyFormat(congress) \o "/" \o PyFormat(treatyNumber),
               NoParams)

get_treaty_actions(congress, treatyNumber, limit, offset) ==
    LET p0 == << <<"limit", limit>>, <<"offset", offset>> >>
    IN Invocation("get_treaty_actions",
                  << <<"congress", congress>>, <<"treatyNumber", treatyNumber>>, <<"limit", limit>>, <<"offset", offset>> >>,
                  "/treaty/" \o PyFormat(congress) \o "/" \o PyFormat(treatyNumber) \o "/actions",
                  Params(p0))

list_congressional_records(limit, offset) ==
    LET p0 == << <<"limit", limit>>, <<"offset", offset>> >>
    IN Invocation("list_congressional_records",
                  << <<"limit", limit>>, <<"offset", offset>> >>,
                  "/congressional-record",
                  Params(p0))

list_daily_congressional_records(volumeNumber, issueNumber, limit, offset) ==
    LET p0 == << <<"limit", limit>>, <<"offset", offset>> >>
    IN Invocation("list_daily_congressional_records",
                  << <<"volumeNumber", volumeNumber>>, <<"issueNumber", issueNumber>>, <<"limit", limit>>, <<"offset", offset>> >>,
                  "/daily-congressional-record/" \o PyFormat(volumeNumber) \o "/" \o PyFormat(issueNumber) \o "/articles",
                  Params(p0))

list_bound_congressional_records(limit, offset) ==
    LET p0 == << <<"limit", limit>>, <<"offset", offset>> >>
    IN Invocation("list_bound_congressional_records",
                  << <<"limit", limit>>, <<"offset", offset>> >>,
                  "/bound-congressional-record",
                  Params(p0))

list_bound_congressional_records_by_year(year, limit, offset) ==
    LET p0 == << <<"limit", limit>>, <<"offset", offset>> >>
    IN Invocation("list_bound_congressional_records_by_year",
                  << <<"year", year>>, <<"limit", limit>>, <<"offset", offset>> >>,
                  "/bound-congressional-record/" \o PyFormat(year),
                  Params(p0))

list_bound_congressional_records_by_month(year, month, limit, offset) ==
    LET p0 == << <<"limit", limit>>, <<"offset", offset>> >>
    IN Invocation("list_bound_congressional_records_by_month",
                  << <<"year", year>>, <<"month", month>>, <<"limit", limit>>, <<"offset", offset>> >>,
                  "/bound-congressional-record/" \o PyFormat(year) \o "/" \o PyFormat(month),
                  Params(p0))

list_bound_congressional_records_by_day(year, month, day, limit, offset) ==
    LET p0 == << <<"limit", limit>>, <<"offset", offset>> >>
    IN Invocation("list_bound_congressional_records_by_day",
                  << <<"year", year>>, <<"month", month>>, <<"day", day>>, <<"limit", limit>>, <<"offset", offset>> >>,
                  "/bound-congressional-record/" \o PyFormat(year) \o "/" \o PyFormat(month) \o "/" \o PyFormat(day),
                  Params(p0))

list_congresses(limit, offset) ==
    LET p0 == << <<"limit", limit>>, <<"offset", offset>> >>
    IN Invocation("list_congresses",
                  << <<"limit", limit>>, <<"offset", offset>> >>,
                  "/congress",
                  Params(p0))

get_congress(congress) ==
    Invocation("get_congress",
               << <<"congress", congress>> >>,
               "/congress/" \o PyFormat(congress),
               NoParams)

get_current_congress ==
    Invocation("get_current_congress",
               <<>>,
               "/congress/current",
               NoParams)

list_summaries(limit, offset, fromDateTime, toDateTime, sort) ==
    LET p0 == << <<"limit", limit>>, <<"offset", offset>> >>
        p1 == IF Truthy(fromDateTime) THEN DictSet(p0, "fromDateTime", fromDateTime) ELSE p0
        p2 == IF Truthy(toDateTime) THEN DictSet(p1, "toDateTime", toDateTime) ELSE p1
        p3 == IF Truthy(sort) THEN DictSet(p2, "sort", sort) ELSE p2
    IN Invocation("list_summaries",
                  << <<"limit", limit>>, <<"offset", offset>>, <<"fromDateTime", fromDateTime>>, <<"toDateTime", toDateTime>>, <<"sort", sort>> >>,
                  "/summaries",
                  Params(p3))

list_summaries_by_congress(congress, limit, offset, fromDateTime, toDateTime, sort) ==
    LET p0 == << <<"limit", limit>>, <<"offset", offset>> >>
        p1 == IF Truthy(fromDateTime) THEN DictSet(p0, "fromDateTime", fromDateTime) ELSE p0
        p2 == IF Truthy(toDateTime) THEN DictSet(p1, "toDateTime", toDateTime) ELSE p1
        p3 == IF Truthy(sort) THEN DictSet(p2, "sort", sort) ELSE p2
    IN Invocation("list_summaries_by_congress",
                  << <<"congress", congress>>, <<"limit", limit>>, <<"offset", offset>>, <<"fromDateTime", fromDateTime>>, <<"toDateTime", toDateTime>>, <<"sort", sort>> >>,
                  "/summaries/" \o PyFormat(congress),
                  Params(p3))

list_summaries_by_bill_type(congress, billType, limit, offset, fromDateTime, toDateTime, sort) ==
    LET p0 == << <<"limit", limit>>, <<"offset", offset>> >>
        p1 == IF Truthy(fromDateTime) THEN DictSet(p0, "fromDateTime", fromDateTime) ELSE p0
        p2 == IF Truthy(toDateTime) THEN DictSet(p1, "toDateTime", toDateTime) ELSE p1
        p3 == IF Truthy(sort) THEN DictSet(p2, "sort", sort) ELSE p2
    IN Invocation("list_summaries_by_bill_type",
                  << <<"congress", congress>>, <<"billType", billType>>, <<"limit", limit>>, <<"offset", offset>>, <<"fromDateTime", fromDateTime>>, <<"toDateTime", toDateTime>>, <<"sort", sort>> >>,
                  "/summaries/" \o PyFormat(congress) \o "/" \o PyFormat(billType),
                  Params(p3))

list_hearings(limit, offset) ==
    LET p0 == << <<"limit", limit>>, <<"offset", offset>> >>
    IN Invocation("list_hearings",
                  << <<"limit", limit>>, <<"offset", offset>> >>,
                  "/hearing",
                  Params(p0))

list_hearings_by_congress(congress, limit, offset, chamber, committee) ==
    LET p0 == << <<"limit", limit>>, <<"offset", offset>> >>
        p1 == IF Truthy(chamber) THEN DictSet(p0, "chamber", chamber) ELSE p0
        p2 == IF Truthy(committee) THEN DictSet(p1, "committee", committee) ELSE p1
    IN Invocation("list_hearings_by_congress",
                  << <<"congress", congress>>, <<"limit", limit>>, <<"offset", offset>>, <<"chamber", chamber>>, <<"committee", committee>> >>,
                  "/hearing/" \o PyFormat(congress),
                  Params(p2))

get_hearing_details(congress, chamber, jacketNumber) ==
    Invocation("get_hearing_details",
               << <<"congress", congress>>, <<"chamber", chamber>>, <<"jacketNumber", jacketNumber>> >>,
               "/hearing/" \o PyFormat(congress) \o "/" \o PyFormat(chamber) \o "/" \o PyFormat(jacketNumber),
               NoParams)

list_house_communications(limit, offset) ==
    LET p0 == << <<"limit", limit>>, <<"offset", offset>> >>
    IN Invocation("list_house_communications",
                  << <<"limit", limit>>, <<"offset", offset>> >>,
                  "/house-communication",
                  Params(p0))

list_house_communications_by_congress(congress, limit, offset) ==
    LET p0 == << <<"limit", limit>>, <<"offset", offset>> >>
    IN Invocation("list_house_communications_by_congress",
                  << <<"congress", congress>>, <<"limit", limit>>, <<"offset", offset>> >>,
                  "/house-communication/" \o PyFormat(congress),
                  Params(p0))

get_house_communication_details(congress, communicationType, communicationNumber) ==
    Invocation("get_house_communication_details",
               << <<"congress", congress>>, <<"communicationType", communicationType>>, <<"communicationNumber", communicationNumber>> >>,
               "/house-communication/" \o PyFormat(congress) \o "/" \o PyFormat(communicationType) \o "/" \o PyFormat(communicationNumber),
               NoParams)

list_senate_communications(limit, offset) ==
    LET p0 == << <<"limit", limit>>, <<"offset", offset>> >>
    IN Invocation("list_senate_communications",
                  << <<"limit", limit>>, <<"offset", offset>> >>,
                  "/senate-communication",
                  Params(p0))

get_senate_communication_details(congress, communicationType, communicationNumber) ==
    Invocation("get_senate_communication_details",
               << <<"congress", congress>>, <<"communicationType", communicationType>>, <<"communicationNumber", communicationNumber>> >>,
               "/senate-communication/" \o PyFormat(congress) \o "/" \o PyFormat(communicationType) \o "/" \o PyFormat(communicationNumber),
               NoParams)

list_senate_communications_by_congress(congress, limit, offset) ==
    LET p0 == << <<"limit", limit>>, <<"offset", offset>> >>
    IN Invocation("list_senate_communications_by_congress",
                  << <<"congress", congress>>, <<"limit", limit>>, <<"offset", offset>> >>,
                  "/senate-communication/" \o PyFormat(congress),
                  Params(p0))

list_house_requirements(limit, offset) ==
    LET p0 == << <<"limit", limit>>, <<"offset", offset>> >>
    IN Invocation("list_house_requirements",
                  << <<"limit", limit>>, <<"offset", offset>> >>,
                  "/house-requirement",
                  Params(p0))

get_house_requirement_details(requirementNumber) ==
    Invocation("get_house_requirement_details",
               << <<"requirementNumber", requirementNumber>> >>,
               "/house-requirement/" \o PyFormat(requirementNumber),
               NoParams)

get_house_requirement_matching_communications(requirementNumber, limit, offset) ==
    LET p0 == << <<"limit", limit>>, <<"offset", offset>> >>
    IN Invocation("get_house_requirement_matching_communications",
                  << <<"requirementNumber", requirementNumber>>, <<"limit", limit>>, <<"offset", offset>> >>,
                  "/house-requirement/" \o PyFormat(requirementNumber) \o "/matching-communications",
                  Params(p0))

list_crs_reports(limit, offset) ==
    LET p0 == << <<"limit", limit>>, <<"offset", offset>> >>
    IN Invocation("list_crs_reports",
                  << <<"limit", limit>>, <<"offset", offset>> >>,
                  "/crsreport",
                  Params(p0))

get_crs_report_details(reportNumber) ==
    Invocation("get_crs_report_details",
               << <<"reportNumber", reportNumber>> >>,
               "/crsreport/" \o PyFormat(reportNumber),
               NoParams)

\* `return await make_congress_request(...)`: what the tool hands back
ToolReturn(text) == text

\* ---------------------------------------------------------------- inputs
EnvValues == {PyNone, PyStr(""), PyStr("K1")}
KeyValues == {PyNone, PyStr(""), PyStr("K1")}

ToolCalls ==
    {get_bill_details(PyInt("117"), PyStr("hr"), PyInt("3076"))}
    \cup {list_bills(PyInt("50"), PyInt("0"), PyNone, PyNone, srt) :
             srt \in {PyNone, PyStr("updateDate+desc")}}

\* argument values for the catalogue of tools, by kind of parameter:
\* identifying integers and codes (one outside every documented enumeration),
\* paging values (the declared Optional[int] admits None), filters unset,
\* empty and set
ArgValues(kind) ==
    CASE kind = "int" -> {PyInt("117"), PyInt("3076")}
      [] kind = "str" -> {PyStr("hr"), PyStr("zz")}
      [] kind = "limit" -> {PyInt("50"), PyInt("300"), PyNone}
      [] kind = "offset" -> {PyInt("0"), PyInt("-1"), PyNone}
      [] kind = "date" -> {PyNone, PyStr(""), PyStr("2022-08-04T04:02:00Z")}
      [] kind = "sort" -> {PyNone, PyStr(""), PyStr("updateDate+desc")}
      [] kind = "filter" -> {PyNone, PyStr(""), PyStr("house")}
      [] kind = "flag" -> {PyNone, PyBool("True"), PyBool("False")}

\* every tool of the module, called with every combination of these values
CatalogCalls ==
    {list_amendments(limit, offset, fromDateTime, toDateTime) :
         limit \in ArgValues("limit"), offset \in ArgValues("offset"), fromDateTime \in ArgValues("date"), toDateTime \in ArgValues("date")}
    \cup {list_amendments_by_congress(congress, limit, offset, fromDateTime, toDateTime) :
         congress \in ArgValues("int"), limit \in ArgValues("limit"), offset \in ArgValues("offset"), fromDateTime \in ArgValues("date"), toDateTime \in ArgValues("date")}
    \cup {list_amendments_by_type(congress, amendmentType, limit, offset, fromDateTime, toDateTime) :
         congress \in ArgValues("int"), amendmentType \in ArgValues("str"), limit \in ArgValues("limit"), offset \in ArgValues("offset"), fromDateTime \in ArgValues("date"), toDateTime \in ArgValues("date")}
    \cup {get_amendment_details(congress, amendmentType, amendmentNumber) :
         congress \in ArgValues("int"), amendmentType \in ArgValues("str"), amendmentNumber \in ArgValues("int")}
    \cup {get_amendment_actions(congress, amendmentType, amendmentNumber, limit, offset) :
         congress \in ArgValues("int"), amendmentType \in ArgValues("str"), amendmentNumber \in ArgValues("int"), limit \in ArgValues("limit"), offset \in ArgValues("offset")}
    \cup {get_amendment_cosponsors(congress, amendmentType, amendmentNumber, limit, offset) :
         congress \in ArgValues("int"), amendmentType \in ArgValues("str"), amendmentNumber \in ArgValues("int"), limit \in ArgValues("limit"), offset \in ArgValues("offset")}
    \cup {get_amendments_to_amendment(congress, amendmentType, amendmentNumber, limit, offset) :
         congress \in ArgValues("int"), amendmentType \in ArgValues("str"), amendmentNumber \in ArgValues("int"), limit \in ArgValues("limit"), offset \in ArgValues("offset")}
    \cup {get_amendment_text(congress, amendmentType, amendmentNumber, limit, offset) :
         congress \in ArgValues("int"), amendmentType \in ArgValues("str"), amendmentNumber \in ArgValues("int"), limit \in ArgValues("limit"), offset \in ArgValues("offset")}
    \cup {list_bills(limit, offset, fromDateTime, toDateTime, sort) :
         limit \in ArgValues("limit"), offset \in ArgValues("offset"), fromDateTime \in ArgValues("date"), toDateTime \in ArgValues("date"), sort \in ArgValues("sort")}
    \cup {list_bills_by_congress(congress, limit, offset, fromDateTime, toDateTime, sort) :
         congress \in ArgValues("int"), limit \in ArgValues("limit"), offset \in ArgValues("offset"), fromDateTime \in ArgValues("date"), toDateTime \in ArgValues("date"), sort \in ArgValues("sort")}
    \cup {list_bills_by_type(congress, billType, limit, offset, fromDateTime, toDateTime, sort) :
         congress \in ArgValues("int"), billType \in ArgValues("str"), limit \in ArgValues("limit"), offset \in ArgValues("offset"), fromDateTime \in ArgValues("date"), toDateTime \in ArgValues("date"), sort \in ArgValues("sort")}
    \cup {get_bill_details(congress, billType, billNumber) :
         congress \in ArgValues("int"), billType \in ArgValues("str"), billNumber \in ArgValues("int")}
    \cup {get_bill_actions(congress, billType, billNumber, limit, offset) :
         congress \in ArgValues("int"), billType \in ArgValues("str"), billNumber \in ArgValues("int"), limit \in ArgValues("limit"), offset \in ArgValues("offset")}
    \cup {get_bill_amendments(congress, billType, billNumber, limit, offset) :
         congress \in ArgValues("int"), billType \in ArgValues("str"), billNumber \in ArgValues("int"), limit \in ArgValues("limit"), offset \in ArgValues("offset")}
    \cup {get_bill_committees(congress, billType, billNumber, limit, offset) :
         congress \in ArgValues("int"), billType \in ArgValues("str"), billNumber \in ArgValues("int"), limit \in ArgValues("limit"), offset \in ArgValues("offset")}
    \cup {get_bill_cosponsors(congress, billType, billNumber, limit, offset) :
         congress \in ArgValues("int"), billType \in ArgValues("str"), billNumber \in ArgValues("int"), limit \in ArgValues("limit"), offset \in ArgValues("offset")}
    \cup {get_bill_related_bills(congress, billType, billNumber, limit, offset) :
         congress \in ArgValues("int"), billType \in ArgValues("str"), billNumber \in ArgValues("int"), limit \in ArgValues("limit"), offset \in ArgValues("offset")}
    \cup {get_bill_subjects(congress, billType, billNumber, limit, offset) :
         congress \in ArgValues("int"), billType \in ArgValues("str"), billNumber \in ArgValues("int"), limit \in ArgValues("limit"), offset \in ArgValues("offset")}
    \cup {get_bill_summaries(congress, billType, billNumber, limit, offset) :
         congress \in ArgValues("int"), billType \in ArgValues("str"), billNumber \in ArgValues("int"), limit \in ArgValues("limit"), offset \in ArgValues("offset")}
    \cup {get_bill_text(congress, billType, billNumber, limit, offset) :
         congress \in ArgValues("int"), billType \in ArgValues("str"), billNumber \in ArgValues("int"), limit \in ArgValues("limit"), offset \in ArgValues("offset")}
    \cup {get_bill_titles(congress, billType, billNumber, limit, offset) :
         congress \in ArgValues("int"), billType \in ArgValues("str"), billNumber \in ArgValues("int"), limit \in ArgValues("limit"), offset \in ArgValues("offset")}
    \cup {list_committees(limit, offset, chamber) :
         limit \in ArgValues("limit"), offset \in ArgValues("offset"), chamber \in ArgValues("filter")}
    \cup {list_committees_by_chamber(chamber, limit, offset) :
         chamber \in ArgValues("str"), limit \in ArgValues("limit"), offset \in ArgValues("offset")}
    \cup {get_committee_details(chamber, committeeCode) :
         chamber \in ArgValues("str"), committeeCode \in ArgValues("str")}
    \cup {get_committee_bills(chamber, committeeCode, limit, offset) :
         chamber \in ArgValues("str"), committeeCode \in ArgValues("str"), limit \in ArgValues("limit"), offset \in ArgValues("offset")}
    \cup {get_committee_members(chamber, committeeCode, limit, offset) :
         chamber \in ArgValues("str"), committeeCode \in ArgValues("str"), limit \in ArgValues("limit"), offset \in ArgValues("offset")}
    \cup {list_committee_reports(limit, offset, fromDateTime, toDateTime) :
         limit \in ArgValues("limit"), offset \in ArgValues("offset"), fromDateTime \in ArgValues("date"), toDateTime \in ArgValues("date")}
    \cup {list_committee_reports_by_congress(congress, limit, offset, fromDateTime, toDateTime, conference) :
         congress \in ArgValues("int"), limit \in ArgValues("limit"), offset \in ArgValues("offset"), fromDateTime \in ArgValues("date"), toDateTime \in ArgValues("date"), conference \in ArgValues("flag")}
    \cup {list_committee_reports_by_type(congress, reportType, limit, offset, fromDateTime, toDateTime) :
         congress \in ArgValues("int"), reportType \in ArgValues("str"), limit \in ArgValues("limit"), offset \in ArgValues("offset"), fromDateTime \in ArgValues("date"), toDateTime \in ArgValues("date")}
    \cup {get_committee_report_details(congress, reportType, reportNumber) :
         congress \in ArgValues("int"), reportType \in ArgValues("str"), reportNumber \in ArgValues("int")}
    \cup {list_committee_prints(limit, offset, fromDateTime, toDateTime) :
         limit \in ArgValues("limit"), offset \in ArgValues("offset"), fromDateTime \in ArgValues("date"), toDateTime \in ArgValues("date")}
    \cup {list_committee_prints_by_congress(congress, limit, offset, fromDateTime, toDateTime) :
         congress \in ArgValues("int"), limit \in ArgValues("limit"), offset \in ArgValues("offset"), fromDateTime \in ArgValues("date"), toDateTime \in ArgValues("date")}
    \cup {list_committee_prints_by_chamber(congress, chamber, limit, offset, fromDateTime, toDateTime) :
         congress \in ArgValues("int"), chamber \in ArgValues("str"), limit \in ArgValues("limit"), offset \in ArgValues("offset"), fromDateTime \in ArgValues("date"), toDateTime \in ArgValues("date")}
    \cup {get_committee_print_details(congress, chamber, jacketNumber) :
         congress \in ArgValues("int"), chamber \in ArgValues("str"), jacketNumber \in ArgValues("str")}
    \cup {list_committee_meetings(limit, offset, fromDateTime, toDateTime) :
         limit \in ArgValues("limit"), offset \in ArgValues("offset"), fromDateTime \in ArgValues("date"), toDateTime \in ArgValues("date")}
    \cup {list_committee_meetings_by_congress(congress, limit, offset, fromDateTime, toDateTime) :
         congress \in ArgValues("int"), limit \in ArgValues("limit"), offset \in ArgValues("offset"), fromDateTime \in ArgValues("date"), toDateTime \in ArgValues("date")}
    \cup {list_committee_meetings_by_chamber(congress, chamber, limit, offset, fromDateTime, toDateTime) :
         congress \in ArgValues("int"), chamber \in ArgValues("str"), limit \in ArgValues("limit"), offset \in ArgValues("offset"), fromDateTime \in ArgValues("date"), toDateTime \in ArgValues("date")}
    \cup {get_committee_meeting_details(congress, chamber, eventId) :
         congress \in ArgValues("int"), chamber \in ArgValues("str"), eventId \in ArgValues("str")}
    \cup {list_members(limit, offset, fromDateTime, toDateTime, currentMember) :
         limit \in ArgValues("limit"), offset \in ArgValues("offset"), fromDateTime \in ArgValues("date"), toDateTime \in ArgValues("date"), currentMember \in ArgValues("flag")}
    \cup {get_member_details(bioguideId) :
         bioguideId \in ArgValues("str")}
    \cup {get_member_sponsored_legislation(bioguideId, limit, offset) :
         bioguideId \in ArgValues("str"), limit \in ArgValues("limit"), offset \in ArgValues("offset")}
    \cup {get_member_cosponsored_legislation(bioguideId, limit, offset) :
         bioguideId \in ArgValues("str"), limit \in ArgValues("limit"), offset \in ArgValues("offset")}
    \cup {list_members_by_congress(congress, limit, offset) :
         congress \in ArgValues("int"), limit \in ArgValues("limit"), offset \in ArgValues("offset")}
    \cup {list_nominations(limit, offset) :
         limit \in ArgValues("limit"), offset \in ArgValues("offset")}
    \cup {list_nominations_by_congress(congress, limit, offset) :
         congress \in ArgValues("int"), limit \in ArgValues("limit"), offset \in ArgValues("offset")}
    \cup {get_nomination_details(congress, nominationNumber) :
         congress \in ArgValues("int"), nominationNumber \in ArgValues("int")}
    \cup {get_nomination_actions(congress, nominationNumber, limit, offset) :
         congress \in ArgValues("int"), nominationNumber \in ArgValues("int"), limit \in ArgValues("limit"), offset \in ArgValues("offset")}
    \cup {list_treaties(limit, offset) :
         limit \in ArgValues("limit"), offset \in ArgValues("offset")}
    \cup {list_treaties_by_congress(congress, limit, offset) :
         congress \in ArgValues("int"), limit \in ArgValues("limit"), offset \in ArgValues("offset")}
    \cup {get_treaty_details(congress, treatyNumber) :
         congress \in ArgValues("int"), treatyNumber \in ArgValues("int")}
    \cup {get_treaty_actions(congress, treatyNumber, limit, offset) :
         congress \in ArgValues("int"), treatyNumber \in ArgValues("int"), limit \in ArgValues("limit"), offset \in ArgValues("offset")}
    \cup {list_congressional_records(limit, offset) :
         limit \in ArgValues("limit"), offset \in ArgValues("offset")}
    \cup {list_daily_congressional_records(volumeNumber, issueNumber, limit, offset) :
         volumeNumber \in ArgValues("int"), issueNumber \in ArgValues("int"), limit \in ArgValues("limit"), offset \in ArgValues("offset")}
    \cup {list_bound_congressional_records(limit, offset) :
         limit \in ArgValues("limit"), offset \in ArgValues("offset")}
    \cup {list_bound_congressional_records_by_year(year, limit, offset) :
         year \in ArgValues("str"), limit \in ArgValues("limit"), offset \in ArgValues("offset")}
    \cup {list_bound_congressional_records_by_month(year, month, limit, offset) :
         year \in ArgValues("str"), month \in ArgValues("str"), limit \in ArgValues("limit"), offset \in ArgValues("offset")}
    \cup {list_bound_congressional_records_by_day(year, month, day, limit, offset) :
         year \in ArgValues("str"), month \in ArgValues("str"), day \in ArgValues("str"), limit \in ArgValues("limit"), offset \in ArgValues("offset")}
    \cup {list_congresses(limit, offset) :
         limit \in ArgValues("limit"), offset \in ArgValues("offset")}
    \cup {get_congress(congress) :
         congress \in ArgValues("int")}
    \cup {get_current_congress}
    \cup {list_summaries(limit, offset, fromDateTime, toDateTime, sort) :
         limit \in ArgValues("limit"), offset \in ArgValues("offset"), fromDateTime \in ArgValues("date"), toDateTime \in ArgValues("date"), sort \in ArgValues("sort")}
    \cup {list_summaries_by_congress(congress, limit, offset, fromDateTime, toDateTime, sort) :
         congress \in ArgValues("int"), limit \in ArgValues("limit"), offset \in ArgValues("offset"), fromDateTime \in ArgValues("date"), toDateTime \in ArgValues("date"), sort \in ArgValues("sort")}
    \cup {list_summaries_by_bill_type(congress, billType, limit, offset, fromDateTime, toDateTime, sort) :
         congress \in ArgValues("int"), billType \in ArgValues("str"), limit \in ArgValues("limit"), offset \in ArgValues("offset"), fromDateTime \in ArgValues("date"), toDateTime \in ArgValues("date"), sort \in ArgValues("sort")}
    \cup {list_hearings(limit, offset) :
         limit \in ArgValues("limit"), offset \in ArgValues("offset")}
    \cup {list_hearings_by_congress(congress, limit, offset, chamber, committee) :
         congress \in ArgValues("int"), limit \in ArgValues("limit"), offset \in ArgValues("offset"), chamber \in ArgValues("filter"), committee \in ArgValues("filter")}
    \cup {get_hearing_details(congress, chamber, jacketNumber) :
         congress \in ArgValues("int"), chamber \in ArgValues("str"), jacketNumber \in ArgValues("str")}
    \cup {list_house_communications(limit, offset) :
         limit \in ArgValues("limit"), offset \in ArgValues("offset")}
    \cup {list_house_communications_by_congress(congress, limit, offset) :
         congress \in ArgValues("int"), limit \in ArgValues("limit"), offset \in ArgValues("offset")}
    \cup {get_house_communication_details(congress, communicationType, communicationNumber) :
         congress \in ArgValues("int"), communicationType \in ArgValues("str"), communicationNumber \in ArgValues("int")}
    \cup {list_senate_communications(limit, offset) :
         limit \in ArgValues("limit"), offset \in ArgValues("offset")}
    \cup {get_senate_communication_details(congress, communicationType, communicationNumber) :
         congress \in ArgValues("int"), communicationType \in ArgValues("str"), communicationNumber \in ArgValues("int")}
    \cup {list_senate_communications_by_congress(congress, limit, offset) :
         congress \in ArgValues("int"), limit \in ArgValues("limit"), offset \in ArgValues("offset")}
    \cup {list_house_requirements(limit, offset) :
         limit \in ArgValues("limit"), offset \in ArgValues("offset")}
    \cup {get_house_requirement_details(requirementNumber) :
         requirementNumber \in ArgValues("int")}
    \cup {get_house_requirement_matching_communications(requirementNumber, limit, offset) :
         requirementNumber \in ArgValues("int"), limit \in ArgValues("limit"), offset \in ArgValues("offset")}
    \cup {list_crs_reports(limit, offset) :
         limit \in ArgValues("limit"), offset \in ArgValues("offset")}
    \cup {get_crs_report_details(reportNumber) :
         reportNumber \in ArgValues("str")}

\* make_congress_request called with params of the caller's choosing
DirectCalls ==
    {Call("make_congress_request", "/bill", prm) :
        prm \in {Params(<<>>),
                 Params(<< <<"limit", PyInt("50")>>, <<"api_key", PyStr("EVIL")>> >>)}}

NotFoundJson == <<"{", Q, "detail", Q, ":", " ", Q, "not found", Q, "}">>
CompactJson == <<"{", Q, "detail", Q, ":", Q, "not ", BS, Q, "found", BS, Q, Q, ",", Q, "n", Q, ":", "42", "}">>
HtmlBody == <<"<html>Bad Gateway</html>">>
QuotedText == <<"say ", Q, "hi", Q, " ", BS, "o/">>
BadBytes == <<"caf", BAD>>

Response(status, body) ==
    [kind |-> "response", status |-> status, body |-> body, exc |-> "", msg |-> <<>>]
TransportError(exc, msg) ==
    [kind |-> "error", status |-> 0, body |-> <<>>, exc |-> exc, msg |-> msg]
Cancelled == [kind |-> "cancel", status |-> 0, body |-> <<>>, exc |-> "CancelledError", msg |-> <<>>]

Responses ==
    {Response(200, CompactJson), Response(200, BadBytes), Response(204, <<>>),
     Response(404, NotFoundJson), Response(404, CompactJson), Response(404, QuotedText),
     Response(500, HtmlBody), Response(500, BadBytes), Response(301, HtmlBody),
     Response(503, <<>>)}

\* what the await of client.get raises when no response arrives; str() of an
\* httpx timeout exception is the empty string
TransportErrors ==
    {TransportError("ReadTimeout", <<>>),
     TransportError("ConnectError", <<"All connection attempts failed">>)}

\* --------------------------------------------------------------- actions
Slots == 1..MaxCalls

Idle == [pc |-> "idle", call |-> Call("", "", NoParams), key |-> PyNone,
         requests |-> <<>>, diag |-> <<>>]

NoNet == [kind |-> "none", status |-> 0, body |-> <<>>, exc |-> "", msg |-> <<>>]

NotDone == [outcome |-> "none", call |-> Call("", "", NoParams), key |-> PyNone,
            net |-> NoNet, kind |-> "", result |-> <<>>, toolResult |-> <<>>, exc |-> "",
            requests |-> <<>>, diag |-> <<>>]

\* the record of an invocation that ended with block outcome r
Ended(call, key, net, r) ==
    [outcome |-> r.pc, call |-> call, key |-> key, net |-> net,
     kind |-> r.kind, result |-> r.result,
     toolResult |-> IF r.pc = "returned" THEN ToolReturn(r.result) ELSE <<>>,
     exc |-> r.exc, requests |-> r.requests, diag |-> r.diag]

Init ==
    /\ environ \in EnvValues
    /\ phase = "start"
    /\ CONGRESS_API_KEY = PyNone
    /\ console = <<>>
    /\ calls = [c \in Slots |-> Idle]
    /\ done = NotDone
    /\ started = 0
    /\ quiet = [c \in Slots |-> 0]

\* lines 8-16: the module's top-level code
ImportModule ==
    /\ phase = "start"
    /\ CONGRESS_API_KEY' = environ
    /\ IF ~Truthy(environ)
       THEN /\ console' = Append(console, "Error: CONGRESS_API_KEY environment variable not set.")
            /\ phase' = "crashed"
       ELSE /\ console' = console
            /\ phase' = "imported"
    /\ UNCHANGED <<environ, calls, done, started, quiet>>

\* lines 994-998: the __main__ block up to mcp.run
Main ==
    /\ phase = "imported"
    /\ console' = IF ~Truthy(CONGRESS_API_KEY)
                  THEN console \o <<"Warning: Server is running without CONGRESS_API_KEY set.",
                                    "         API calls will likely fail.">>
                  ELSE console
    /\ phase' = "serving"
    /\ UNCHANGED <<environ, CONGRESS_API_KEY, calls, done, started, quiet>>

\* the module global is rebound while the server runs
SetCredential(val) ==
    /\ phase = "serving"
    /\ val # CONGRESS_API_KEY
    /\ CONGRESS_API_KEY' = val
    /\ UNCHANGED <<environ, phase, console, calls, done, started, quiet>>

\* call runs up to its first suspension, in the first free slot c
Begin(c, call, f) ==
    /\ phase = "serving"
    /\ calls[c].pc = "idle"
    /\ \A b \in Slots : b < c => calls[b].pc # "idle"
    /\ started < MaxInvocations
    /\ started' = started + 1
    /\ LET r == DispatchStart(CONGRESS_API_KEY, call.endpoint, call.params, f)
       IN IF r.pc = "awaiting"
          THEN /\ calls' = [calls EXCEPT ![c] =
                              [pc |-> "awaiting", call |-> call, key |-> CONGRESS_API_KEY,
                               requests |-> r.requests, diag |-> r.diag]]
               /\ done' = done
          ELSE /\ calls' = calls
               /\ done' = Ended(call, CONGRESS_API_KEY, NoNet, r)
    /\ UNCHANGED <<environ, phase, CONGRESS_API_KEY, console, quiet>>

\* the invocation host calls a tool
InvokeTool(c) ==
    \E call \in ToolCalls, f \in StartFaults : Begin(c, call, f)

\* make_congress_request is called directly
CallDispatcher(c) ==
    \E call \in DirectCalls, f \in StartFaults : Begin(c, call, f)

\* the end of a call, had the dispatcher kept its request in a module global
\* that each call overwrites: it reads the request of the call begun last
FinishShared(c, net, f) ==
    /\ calls[c].pc = "awaiting"
    /\ LET s == calls[c]
           last == CHOOSE b \in Slots :
                      /\ calls[b].pc = "awaiting"
                      /\ \A d \in Slots : calls[d].pc = "awaiting" => d <= b
           r == DispatchFinish(calls[last].requests[1], net, s.requests, s.diag, f)
       IN done' = Ended(s.call, s.key, net, r)
    /\ calls' = [calls EXCEPT ![c] = Idle]
    /\ quiet' = [quiet EXCEPT ![c] = 0]
    /\ UNCHANGED <<environ, phase, CONGRESS_API_KEY, console, started>>

\* the await of client.get ends with net; the dispatcher runs to its end
Finish(c, net, f) ==
    /\ calls[c].pc = "awaiting"
    /\ LET s == calls[c]
           r == DispatchFinish(s.requests[1], net, s.requests, s.diag, f)
       IN done' = Ended(s.call, s.key, net, r)
    /\ calls' = [calls EXCEPT ![c] = Idle]
    /\ quiet' = [quiet EXCEPT ![c] = 0]
    /\ UNCHANGED <<environ, phase, CONGRESS_API_KEY, console, started>>

\* upstream answers with an HTTP response
Respond(c) ==
    \E net \in Responses, f \in FinishFaults : Finish(c, net, f)

\* the request fails without a response (timeout, connection failure, ...)
Fail(c) ==
    \E net \in TransportErrors, f \in FinishFaults : Finish(c, net, f)

\* the task awaiting the request is cancelled
Cancel(c) ==
    Finish(c, Cancelled, NoFault)

Next ==
    \/ ImportModule
    \/ Main
    \/ \E val \in KeyValues : SetCredential(val)
    \/ \E c \in Slots : InvokeTool(c)
    \/ \E c \in Slots : CallDispatcher(c)
    \/ \E c \in Slots : Respond(c)
    \/ \E c \in Slots : Fail(c)
    \/ \E c \in Slots : Cancel(c)

Spec == Init /\ [][Next]_vars

\* ---------------------------------------------- the catalogue of tools
\* One invocation of any tool with any of the catalogue's argument values,
\* answered by upstream, with no fault of the surroundings.
CatalogResponses == {Response(200, CompactJson), Response(404, NotFoundJson)}

InvokeCatalogTool ==
    /\ started = 0
    /\ \E call \in CatalogCalls : Begin(1, call, NoFault)

AnswerCatalogTool ==
    \E net \in CatalogResponses : Finish(1, net, NoFault)

NextCatalog ==
    \/ ImportModule
    \/ Main
    \/ InvokeCatalogTool
    \/ AnswerCatalogTool

SpecCatalog == Init /\ [][NextCatalog]_vars

\* ------------------------------------------------- the request in time
\* client.get under timeout=30.0: httpx applies the value to each wait for
\* data on the connection, not to the request as a whole. Time passes in
\* ticks; the timeout expires after ReadTimeoutTicks ticks without data.
Tick(c) ==
    /\ calls[c].pc = "awaiting"
    /\ quiet[c] < ReadTimeoutTicks
    /\ quiet' = [quiet EXCEPT ![c] = quiet[c] + 1]
    /\ UNCHANGED <<environ, phase, CONGRESS_API_KEY, console, calls, done, started>>

\* upstream sends a part of its answer: the wait for data starts over
ReceiveData(c) ==
    /\ calls[c].pc = "awaiting"
    /\ quiet[c] > 0
    /\ quiet' = [quiet EXCEPT ![c] = 0]
    /\ UNCHANGED <<environ, phase, CONGRESS_API_KEY, console, calls, done, started>>

\* no data for the whole timeout: the await raises httpx.ReadTimeout
TimeoutExpires(c) ==
    /\ quiet[c] = ReadTimeoutTicks
    /\ Finish(c, TransportError("ReadTimeout", <<>>), NoFault)

\* upstream completes its answer
CompleteAnswer(c) ==
    \E net \in CatalogResponses : Finish(c, net, NoFault)

\* the invocation host calls a tool
InvokeTimed(c) ==
    \E call \in ToolCalls : Begin(c, call, NoFault)

NextTimed ==
    \/ ImportModule
    \/ Main
    \/ \E c \in Slots : InvokeTimed(c)
    \/ \E c \in Slots : Tick(c)
    \/ \E c \in Slots : ReceiveData(c)
    \/ \E c \in Slots : TimeoutExpires(c)
    \/ \E c \in Slots : CompleteAnswer(c)

\* time passes and httpx enforces its timeout; upstream owes nothing
SpecTimed ==
    /\ Init
    /\ [][NextTimed]_vars
    /\ \A c \in Slots : WF_vars(Tick(c)) /\ WF_vars(TimeoutExpires(c))

\* ------------------------------------------------------------ properties
\* the invocations the state records: those in flight and the one that ended last
InFlight == {c \in Slots : calls[c].pc = "awaiting"}
HasEnded == done.outcome # "none"
HasReturned == done.outcome = "returned"
GotResponse == done.net.kind = "response"

\* text is a JSON object with the single key "error" and a string value
IsErrorDocument(text) ==
    LET p == JsonLoads(text)
    IN /\ p.exc = "none"
       /\ p.val.t = "obj"
       /\ Len(p.val.m) = 1
       /\ p.val.m[1][1] = <<"error">>
       /\ p.val.m[1][2].t = "str"

\* the message of an error document
ErrorMessage(text) == JsonLoads(text).val.m[1][2].s

ConfigErrorText == <<"{", Q, "error", Q, ":", " ", Q, "API key is not configured.", Q, "}">>

\* C1: a call made while no credential is configured (the global is None or
\* empty when the call is made) returns exactly the configuration-error text,
\* from the dispatcher and from the tool, and issues no request; no call in
\* flight was started without a credential.
C1_MissingKeyShortCircuits ==
    /\ (HasEnded /\ ~Truthy(done.key)) =>
          /\ done.outcome = "returned"
          /\ done.result = ConfigErrorText
          /\ done.toolResult = ConfigErrorText
          /\ done.requests = <<>>
    /\ \A c \in InFlight : Truthy(calls[c].key)

\* a tool call made after the credential was removed from a running server
C1_Witness ==
    /\ Truthy(environ)
    /\ HasReturned /\ ~Truthy(done.key)
    /\ done.call.tool = "get_bill_details"
    /\ done.result = ConfigErrorText

\* C2: a process started without the credential does not fail to start: it
\* never ends up crashed.
C2_StartupNonFatal == ~Truthy(environ) => phase # "crashed"

\* C3: no invocation ends with an exception leaving the dispatcher.
C3_NeverRaises == done.outcome # "raised"

\* C4: a call that returns yields one result, of one kind: the body text
\* exactly when a response with a successful status arrived, otherwise (no
\* credential, no request, no response, a status outside 2xx) an error document.
C4_ExactlyOneResult ==
    HasReturned =>
       /\ done.kind \in {"body", "error"}
       /\ done.kind = "body" <=> (GotResponse /\ done.net.status \in 200..299)
       /\ done.kind = "body" => done.result = ResponseText(done.net.body)
       /\ done.kind = "error" => IsErrorDocument(done.result)

\* a status outside 2xx with a body was reported as an error document
C4_Witness ==
    /\ HasReturned /\ GotResponse /\ done.net.status = 301
    /\ done.kind = "error" /\ done.result # ResponseText(done.net.body)

\* C5: every request issued carries api_key, and its value is the credential
\* that was configured when the call was made, whatever params the caller gave.
C5_ApiKeyIsCredential ==
    /\ \A c \in InFlight : \A i \in 1..Len(calls[c].requests) :
          /\ DictHas(calls[c].requests[i].params, "api_key")
          /\ DictGet(calls[c].requests[i].params, "api_key") = calls[c].key
    /\ \A i \in 1..Len(done.requests) :
          /\ DictHas(done.requests[i].params, "api_key")
          /\ DictGet(done.requests[i].params, "api_key") = done.key

\* C6: when a response with a successful status arrived and the call returned,
\* the result is the response's text, token for token (the body itself when
\* it is valid UTF-8), and the tool hands back the dispatcher's result.
C6_BodyVerbatim ==
    /\ (HasReturned /\ GotResponse /\ done.net.status \in 200..299) =>
          /\ done.result = ResponseText(done.net.body)
          /\ (\A i \in 1..Len(done.net.body) : done.net.body[i] # BAD)
                => done.result = done.net.body
    /\ HasReturned => done.toolResult = done.result

\* a 200 whose JSON body would change under parsing and re-serialization
C6_Witness ==
    /\ HasReturned /\ GotResponse /\ done.net.status = 200
    /\ done.net.body = CompactJson
    /\ done.toolResult = CompactJson
    /\ JsonDumps(JsonLoads(CompactJson).val) # CompactJson

\* C7: when a response with a status outside 2xx and a JSON body arrived and
\* the call returned, the result is an error document whose message holds the
\* status code, the URL of the request and the JSON content.
C7_HttpErrorEmbedsJson ==
    (HasReturned /\ GotResponse /\ done.net.status \notin 200..299
       /\ JsonLoads(done.net.body).exc = "none") =>
          /\ IsErrorDocument(done.result)
          /\ LET msg == ErrorMessage(done.result)
             IN /\ Contains(msg, <<ToString(done.net.status)>>)
                /\ Contains(msg, <<CONGRESS_API_BASE \o done.call.endpoint>>)
                /\ Contains(msg, RequestUrl(done.requests[1]))
                /\ Contains(msg, JsonDumps(JsonLoads(done.net.body).val))
                /\ done.net.body = NotFoundJson => Contains(msg, <<"not found">>)

\* the 404 with body {"detail": "not found"}
C7_Witness ==
    /\ HasReturned /\ GotResponse /\ done.net.status = 404
    /\ done.net.body = NotFoundJson
    /\ Contains(ErrorMessage(done.result), <<"404">>)

\* the response has a status outside 2xx and a body that is not JSON
UnparsableError ==
    /\ HasEnded /\ GotResponse /\ done.net.status \notin 200..299
    /\ ResponseJson(done.net.body).exc # "none"

\* C8: for a status outside 2xx with a body that is not JSON, the failure to
\* parse never leaves the dispatcher as an exception, and a returned result
\* is an error document holding the status code and the raw response text.
C8_UnparsableBodyEmbedsText ==
    UnparsableError =>
       /\ done.exc \notin {"JSONDecodeError", "UnicodeDecodeError"}
       /\ HasReturned =>
             /\ IsErrorDocument(done.result)
             /\ Contains(ErrorMessage(done.result), <<ToString(done.net.status)>>)
             /\ Contains(ErrorMessage(done.result), ResponseText(done.net.body))

\* C9: when the request failed without a response, the failure does not
\* leave the dispatcher as an exception, and a returned result is an error
\* document whose message describes the failure in a non-empty text
\* following "An unexpected error occurred: ".
C9_TransportErrorDescribed ==
    (HasEnded /\ done.net.kind = "error") =>
       /\ done.exc # done.net.exc
       /\ HasReturned =>
             /\ IsErrorDocument(done.result)
             /\ LET msg == ErrorMessage(done.result)
                    prefix == <<"An unexpected error occurred: ">>
                IN /\ StartsWith(msg, prefix)
                   /\ Len(msg) > Len(prefix)

\* C10: an invocation issues at most one request, and exactly the one it
\* issued before the await when it ends in a failure.
C10_AtMostOneRequest ==
    /\ \A c \in Slots : Len(calls[c].requests) <= 1
    /\ Len(done.requests) <= 1
    /\ (HasEnded /\ done.net.kind # "none") => Len(done.requests) = 1

\* a call ended after a transport failure, having issued its one request
C10_Witness ==
    /\ HasReturned /\ done.net.kind = "error"
    /\ done.kind = "error"
    /\ Len(done.requests) = 1

\* the requests the state records as sent, each with the invocation that sent
\* it and the credential that invocation read
Sent ==
    {[call |-> calls[c].call, key |-> calls[c].key, req |-> calls[c].requests[1]] :
        c \in {b \in Slots : calls[b].pc = "awaiting"}}
    \cup (IF done.requests # <<>>
          THEN {[call |-> done.call, key |-> done.key, req |-> done.requests[1]]}
          ELSE {})

\* the three families of tools: a tool without paging is a detail tool, a
\* get_ tool with paging is a sub-resource tool, a list_ tool is a list tool
ListTools ==
    {"list_amendments", "list_amendments_by_congress", "list_amendments_by_type",
     "list_bills", "list_bills_by_congress", "list_bills_by_type", "list_committees",
     "list_committees_by_chamber", "list_committee_reports",
     "list_committee_reports_by_congress", "list_committee_reports_by_type",
     "list_committee_prints", "list_committee_prints_by_congress",
     "list_committee_prints_by_chamber", "list_committee_meetings",
     "list_committee_meetings_by_congress", "list_committee_meetings_by_chamber",
     "list_members", "list_members_by_congress", "list_nominations",
     "list_nominations_by_congress", "list_treaties", "list_treaties_by_congress",
     "list_congressional_records", "list_daily_congressional_records",
     "list_bound_congressional_records", "list_bound_congressional_records_by_year",
     "list_bound_congressional_records_by_month",
     "list_bound_congressional_records_by_day", "list_congresses", "list_summaries",
     "list_summaries_by_congress", "list_summaries_by_bill_type", "list_hearings",
     "list_hearings_by_congress", "list_house_communications",
     "list_house_communications_by_congress", "list_senate_communications",
     "list_senate_communications_by_congress", "list_house_requirements",
     "list_crs_reports"}

DetailTools ==
    {"get_amendment_details", "get_bill_details", "get_committee_details",
     "get_committee_report_details", "get_committee_print_details",
     "get_committee_meeting_details", "get_member_details", "get_nomination_details",
     "get_treaty_details", "get_congress", "get_current_congress",
     "get_hearing_details", "get_house_communication_details",
     "get_senate_communication_details", "get_house_requirement_details",
     "get_crs_report_details"}

SubResourceTools ==
    {"get_amendment_actions", "get_amendment_cosponsors", "get_amendments_to_amendment",
     "get_amendment_text", "get_bill_actions", "get_bill_amendments",
     "get_bill_committees", "get_bill_cosponsors", "get_bill_related_bills",
     "get_bill_subjects", "get_bill_summaries", "get_bill_text", "get_bill_titles",
     "get_committee_bills", "get_committee_members", "get_member_sponsored_legislation",
     "get_member_cosponsored_legislation", "get_nomination_actions",
     "get_treaty_actions", "get_house_requirement_matching_communications"}

ToolNames == ListTools \cup DetailTools \cup SubResourceTools

\* the arguments of an invocation by their place in the signature: the
\* identifying ones come first, then limit and offset, then the optional filters
ArgIndex(args, name) == CHOOSE i \in 1..Len(args) : args[i][1] = name
IdArgs(args) ==
    IF DictHas(args, "limit") THEN SubSeq(args, 1, ArgIndex(args, "limit") - 1) ELSE args
FilterArgs(args) ==
    IF DictHas(args, "offset") THEN SubSeq(args, ArgIndex(args, "offset") + 1, Len(args)) ELSE <<>>
OptionalFilters ==
    {"fromDateTime", "toDateTime", "sort", "chamber", "committee", "conference", "currentMember"}

\* C11: for every list-type tool and every optional filter it accepts, a
\* filter the caller omitted (left at None) has no key in the query
\* parameters of the request the tool sends.
C11_OmittedFilterAbsent ==
    \A s \in Sent :
        s.call.tool \in ListTools =>
            LET filters == FilterArgs(s.call.args)
            IN \A i \in 1..Len(filters) :
                  /\ filters[i][1] \in OptionalFilters
                  /\ filters[i][2] = PyNone => ~DictHas(s.req.params, filters[i][1])

\* a hearing list was requested with the committee given and the chamber omitted
C11_Witness ==
    \E s \in Sent :
        /\ s.call.tool = "list_hearings_by_congress"
        /\ DictGet(s.call.args, "chamber") = PyNone
        /\ DictGet(s.call.args, "committee") = PyStr("house")
        /\ DictKeys(s.req.params) = {"api_key", "limit", "offset", "committee"}

\* the tri-state arguments of the catalogue
Flags == {"currentMember", "conference"}

\* C12: for every tool accepting currentMember or conference, an argument of
\* true is sent as the query value "true", false as the query value "false"
\* (the key is present), and an unset argument gives no key.
C12_TriStateFlag ==
    \A s \in Sent : \A name \in Flags :
        (s.call.tool \in ToolNames /\ DictHas(s.call.args, name)) =>
            LET arg == DictGet(s.call.args, name)
                sent == DictHas(s.req.params, name)
                text == QueryValue(DictGet(s.req.params, name))
            IN /\ arg = PyBool("True") => sent /\ text = "true"
               /\ arg = PyBool("False") => sent /\ text = "false"
               /\ arg = PyNone => ~sent

\* the member list was requested with currentMember false
C12_Witness ==
    \E s \in Sent :
        /\ s.call.tool = "list_members"
        /\ DictGet(s.call.args, "currentMember") = PyBool("False")
        /\ DictHas(s.req.params, "currentMember")
        /\ RequestUrl(s.req)[Len(RequestUrl(s.req))] = "false"

\* the literal part of each detail tool's path template; the identifying
\* arguments follow it, one segment each
DetailTemplate(tool) ==
    CASE tool = "get_amendment_details" -> "/amendment"
      [] tool = "get_bill_details" -> "/bill"
      [] tool = "get_committee_details" -> "/committee"
      [] tool = "get_committee_report_details" -> "/committee-report"
      [] tool = "get_committee_print_details" -> "/committee-print"
      [] tool = "get_committee_meeting_details" -> "/committee-meeting"
      [] tool = "get_member_details" -> "/member"
      [] tool = "get_nomination_details" -> "/nomination"
      [] tool = "get_treaty_details" -> "/treaty"
      [] tool = "get_congress" -> "/congress"
      [] tool = "get_current_congress" -> "/congress/current"
      [] tool = "get_hearing_details" -> "/hearing"
      [] tool = "get_house_communication_details" -> "/house-communication"
      [] tool = "get_senate_communication_details" -> "/senate-communication"
      [] tool = "get_house_requirement_details" -> "/house-requirement"
      [] tool = "get_crs_report_details" -> "/crsreport"

\* the segments a template's slots receive: each argument's text, in order
RECURSIVE PathSegments(_)
PathSegments(args) ==
    IF args = <<>> THEN "" ELSE "/" \o args[1][2].v \o PathSegments(Tail(args))

\* C13: every detail-type tool sends a request whose path is its literal
\* template with the identifying arguments substituted in declared order, and
\* whose query parameters are the authentication parameter only.
C13_DetailRequest ==
    \A s \in Sent :
        s.call.tool \in DetailTools =>
            /\ s.req.url = CONGRESS_API_BASE \o DetailTemplate(s.call.tool)
                              \o PathSegments(s.call.args)
            /\ s.req.params = << <<"api_key", s.key>> >>

\* get_bill_details(117, "hr", 3076) was sent to /v3/bill/117/hr/3076
C13_Witness ==
    \E s \in Sent :
        /\ s.call.tool = "get_bill_details"
        /\ s.call.args = << <<"congress", PyInt("117")>>, <<"billType", PyStr("hr")>>,
                            <<"billNumber", PyInt("3076")>> >>
        /\ RequestUrl(s.req) = <<"https://api.congress.gov/v3/bill/117/hr/3076", "?",
                                 "api_key", "=", "K1">>

\* an optional argument the caller set: neither left at None nor empty
IsSet(val) == val # PyNone /\ val # PyStr("")
SetFilter(arg) == IsSet(arg[2])

\* the keys of a dict or of an argument list, in order
KeySeq(d) == [i \in 1..Len(d) |-> d[i][1]]

\* C14: for every list-type tool call the query parameters of the request are
\* ordered api_key, limit, offset, then the filters the caller set, in the
\* order the tool declares them.
C14_QueryOrder ==
    \A s \in Sent :
        s.call.tool \in ListTools =>
            KeySeq(s.req.params)
                = <<"api_key", "limit", "offset">>
                  \o KeySeq(SelectSeq(FilterArgs(s.call.args), SetFilter))

\* list_bills(limit=50, offset=0, sort="updateDate+desc") was sent as
\* /v3/bill?api_key=<key>&limit=50&offset=0&sort=updateDate%2Bdesc
C14_Witness ==
    \E s \in Sent :
        /\ s.call.tool = "list_bills"
        /\ s.call.args = << <<"limit", PyInt("50")>>, <<"offset", PyInt("0")>>,
                            <<"fromDateTime", PyNone>>, <<"toDateTime", PyNone>>,
                            <<"sort", PyStr("updateDate+desc")>> >>
        /\ RequestUrl(s.req) = <<"https://api.congress.gov/v3/bill", "?",
                                 "api_key", "=", "K1", "&", "limit", "=", "50", "&",
                                 "offset", "=", "0", "&", "sort", "=", "updateDate%2Bdesc">>

\* an invocation in flight repeats the detail call that ended last, with the
\* same arguments and the same credential
RepeatsLast(c) ==
    /\ done.outcome = "returned"
    /\ done.requests # <<>>
    /\ done.call.tool \in DetailTools
    /\ calls[c].call = done.call
    /\ calls[c].key = done.key

\* the invocation ending in this step repeats the one that ended before it,
\* and upstream answered both alike
RepeatEnds ==
    /\ done.outcome = "returned"
    /\ done'.outcome = "returned"
    /\ done.call.tool \in DetailTools
    /\ done'.call = done.call
    /\ done'.key = done.key
    /\ done'.net = done.net

\* C15: the same detail-type tool call made twice with the same arguments and
\* an unchanged credential sends the same request (URL, query parameters,
\* headers) both times, and when upstream answers both alike the two results
\* are identical.
C15_DetailCallRepeatable ==
    /\ [](\A c \in InFlight : RepeatsLast(c) => calls[c].requests = done.requests)
    /\ [][RepeatEnds => /\ done'.result = done.result
                        /\ done'.toolResult = done.toolResult
                        /\ done'.requests = done.requests]_vars

\* get_bill_details has returned once and is in flight a second time
C15_Witness ==
    \E c \in InFlight :
        /\ RepeatsLast(c)
        /\ done.call.tool = "get_bill_details"
        /\ done.net.kind = "response"
        /\ started = 2

\* make_congress_request run from entry to end with nothing else in between,
\* under faults f1 before and f2 after the await, upstream answering net
RunAlone(call, key, net, f1, f2) ==
    LET a == DispatchStart(key, call.endpoint, call.params, f1)
    IN IF a.pc = "awaiting" /\ net.kind # "none"
       THEN DispatchFinish(a.requests[1], net, a.requests, a.diag, f2)
       ELSE a

\* the invocation that ended last ended as a run alone would have
EndedAsAlone ==
    \E f1 \in StartFaults, f2 \in FinishFaults :
        LET r == RunAlone(done.call, done.key, done.net, f1, f2)
        IN /\ r.pc = done.outcome
           /\ r.result = done.result
           /\ r.exc = done.exc
           /\ r.requests = done.requests
           /\ r.diag = done.diag

\* the invocation in slot c sent the request a run alone would have sent
SentAsAlone(c) ==
    LET a == DispatchStart(calls[c].key, calls[c].call.endpoint, calls[c].call.params, NoFault)
    IN a.pc = "awaiting" /\ a.requests = calls[c].requests

\* a step of an invocation: one begins, or one ends
InvocationStep == calls' # calls \/ done' # done

\* C16: under every interleaving of concurrent invocations each invocation's
\* request and result are those of the same invocation run alone with the same
\* upstream answer; a step of one invocation changes no other invocation's
\* state, nor the credential.
C16_InvocationsIsolated ==
    /\ []((HasEnded => EndedAsAlone) /\ (\A c \in InFlight : SentAsAlone(c)))
    /\ [][InvocationStep =>
            /\ CONGRESS_API_KEY' = CONGRESS_API_KEY
            /\ environ' = environ
            /\ \A b, c \in Slots :
                  (b # c /\ calls'[b] # calls[b]) => calls'[c] = calls[c]]_vars

\* an invocation got its answer and returned while a different one was in flight
C16_Witness ==
    /\ calls[2].pc = "awaiting"
    /\ calls[1].pc = "idle"
    /\ HasReturned
    /\ done.net.kind = "response"
    /\ done.requests # calls[2].requests

\* C17: every request is preceded by a diagnostic line, and every error
\* document (configuration error, HTTP error, unexpected error) is preceded by
\* a diagnostic line that reports the error.
C17_DiagnosticLineEmitted ==
    /\ \A c \in InFlight :
          calls[c].diag # <<>> /\ calls[c].diag[1][1] = "Making request to: "
    /\ done.requests # <<>> =>
          done.diag # <<>> /\ done.diag[1][1] = "Making request to: "
    /\ (HasReturned /\ IsErrorDocument(done.result)) =>
          /\ done.diag # <<>>
          /\ done.diag[Len(done.diag)][1] = "Error making Congress API request: "

\* the faults under which every diagnostic line is written
PrintsSucceed(faults) == {f \in faults : ~f.print1 /\ ~f.print2}

\* C18: whether or not writing a diagnostic line fails, an invocation sends
\* the same request and ends with the same text: every invocation ends as one
\* with the same call, credential and upstream answer whose diagnostic lines
\* were all written.
C18_DiagnosticsChangeNothing ==
    HasEnded =>
        \E f1 \in PrintsSucceed(StartFaults), f2 \in PrintsSucceed(FinishFaults) :
            LET r == RunAlone(done.call, done.key, done.net, f1, f2)
            IN /\ r.pc = done.outcome
               /\ r.result = done.result
               /\ r.exc = done.exc
               /\ r.requests = done.requests

\* C19: no request carries a query parameter whose value is null or empty,
\* whatever the tool and its arguments (limit or offset given as None and
\* string filters given as "" included).
C19_NoEmptyQueryValue ==
    \A s \in Sent : \A i \in 1..Len(s.req.params) :
        /\ s.req.params[i][2] # PyNone
        /\ QueryValue(s.req.params[i][2]) # ""

\* each sub-resource tool's detail tool and the suffix it appends
SubResource(tool) ==
    CASE tool = "get_amendment_actions" ->
            [detail |-> "get_amendment_details", suffix |-> "actions"]
      [] tool = "get_amendment_cosponsors" ->
            [detail |-> "get_amendment_details", suffix |-> "cosponsors"]
      [] tool = "get_amendments_to_amendment" ->
            [detail |-> "get_amendment_details", suffix |-> "amendments"]
      [] tool = "get_amendment_text" ->
            [detail |-> "get_amendment_details", suffix |-> "text"]
      [] tool = "get_bill_actions" ->
            [detail |-> "get_bill_details", suffix |-> "actions"]
      [] tool = "get_bill_amendments" ->
            [detail |-> "get_bill_details", suffix |-> "amendments"]
      [] tool = "get_bill_committees" ->
            [detail |-> "get_bill_details", suffix |-> "committees"]
      [] tool = "get_bill_cosponsors" ->
            [detail |-> "get_bill_details", suffix |-> "cosponsors"]
      [] tool = "get_bill_related_bills" ->
            [detail |-> "get_bill_details", suffix |-> "relatedbills"]
      [] tool = "get_bill_subjects" ->
            [detail |-> "get_bill_details", suffix |-> "subjects"]
      [] tool = "get_bill_summaries" ->
            [detail |-> "get_bill_details", suffix |-> "summaries"]
      [] tool = "get_bill_text" ->
            [detail |-> "get_bill_details", suffix |-> "text"]
      [] tool = "get_bill_titles" ->
            [detail |-> "get_bill_details", suffix |-> "titles"]
      [] tool = "get_committee_bills" ->
            [detail |-> "get_committee_details", suffix |-> "bills"]
      [] tool = "get_committee_members" ->
            [detail |-> "get_committee_details", suffix |-> "members"]
      [] tool = "get_member_sponsored_legislation" ->
            [detail |-> "get_member_details", suffix |-> "sponsored-legislation"]
      [] tool = "get_member_cosponsored_legislation" ->
            [detail |-> "get_member_details", suffix |-> "cosponsored-legislation"]
      [] tool = "get_nomination_actions" ->
            [detail |-> "get_nomination_details", suffix |-> "actions"]
      [] tool = "get_treaty_actions" ->
            [detail |-> "get_treaty_details", suffix |-> "actions"]
      [] tool = "get_house_requirement_matching_communications" ->
            [detail |-> "get_house_requirement_details", suffix |-> "matching-communications"]

\* the call a detail tool makes for the identifying arguments ids
DetailCall(tool, ids) ==
    CASE tool = "get_amendment_details" -> get_amendment_details(ids[1][2], ids[2][2], ids[3][2])
      [] tool = "get_bill_details" -> get_bill_details(ids[1][2], ids[2][2], ids[3][2])
      [] tool = "get_committee_details" -> get_committee_details(ids[1][2], ids[2][2])
      [] tool = "get_member_details" -> get_member_details(ids[1][2])
      [] tool = "get_nomination_details" -> get_nomination_details(ids[1][2], ids[2][2])
      [] tool = "get_treaty_details" -> get_treaty_details(ids[1][2], ids[2][2])
      [] tool = "get_house_requirement_details" -> get_house_requirement_details(ids[1][2])

\* C20: every sub-resource tool requests the path its detail tool builds for
\* the same identifying arguments followed by one literal suffix segment, and
\* passes exactly limit and offset as its query parameters.
C20_SubResourceRequest ==
    \A s \in Sent :
        s.call.tool \in SubResourceTools =>
            LET sub == SubResource(s.call.tool)
                detail == DetailCall(sub.detail, IdArgs(s.call.args))
                path == detail.endpoint \o "/" \o sub.suffix
            IN /\ s.call.endpoint = path
               /\ s.req.url = CONGRESS_API_BASE \o path
               /\ s.call.params = Params(<< <<"limit", DictGet(s.call.args, "limit")>>,
                                            <<"offset", DictGet(s.call.args, "offset")>> >>)
               /\ DictKeys(s.req.params) = {"api_key", "limit", "offset"}

\* get_bill_actions(117, "hr", 3076) was sent to /v3/bill/117/hr/3076/actions
C20_Witness ==
    \E s \in Sent :
        /\ s.call.tool = "get_bill_actions"
        /\ s.req.url = "https://api.congress.gov/v3/bill/117/hr/3076/actions"
        /\ s.req.params = << <<"api_key", PyStr("K1")>>, <<"limit", PyInt("50")>>,
                             <<"offset", PyInt("0")>> >>

\* C21: every error document the dispatcher returns (configuration error,
\* HTTP error, unexpected error) is a JSON object with exactly one key,
\* "error", whose value is a string, and the tool hands it back as it is.
C21_ErrorDocumentShape ==
    (HasReturned /\ done.kind = "error") =>
        /\ IsErrorDocument(done.result)
        /\ done.toolResult = done.result

\* an HTTP error whose body holds quotes and a backslash was returned as an
\* error document
C21_Witness ==
    /\ HasReturned
    /\ done.kind = "error"
    /\ done.net.kind = "response"
    /\ done.net.body = QuotedText
    /\ IsErrorDocument(done.result)

\* the literal parts of each list tool's path: the identifying arguments
\* stand between them, one segment each
ListTemplate(tool) ==
    CASE tool = "list_amendments" -> [prefix |-> "/amendment", suffix |-> ""]
      [] tool = "list_amendments_by_congress" -> [prefix |-> "/amendment", suffix |-> ""]
      [] tool = "list_amendments_by_type" -> [prefix |-> "/amendment", suffix |-> ""]
      [] tool = "list_bills" -> [prefix |-> "/bill", suffix |-> ""]
      [] tool = "list_bills_by_congress" -> [prefix |-> "/bill", suffix |-> ""]
      [] tool = "list_bills_by_type" -> [prefix |-> "/bill", suffix |-> ""]
      [] tool = "list_committees" -> [prefix |-> "/committee", suffix |-> ""]
      [] tool = "list_committees_by_chamber" -> [prefix |-> "/committee", suffix |-> ""]
      [] tool = "list_committee_reports" -> [prefix |-> "/committee-report", suffix |-> ""]
      [] tool = "list_committee_reports_by_congress" -> [prefix |-> "/committee-report", suffix |-> ""]
      [] tool = "list_committee_reports_by_type" -> [prefix |-> "/committee-report", suffix |-> ""]
      [] tool = "list_committee_prints" -> [prefix |-> "/committee-print", suffix |-> ""]
      [] tool = "list_committee_prints_by_congress" -> [prefix |-> "/committee-print", suffix |-> ""]
      [] tool = "list_committee_prints_by_chamber" -> [prefix |-> "/committee-print", suffix |-> ""]
      [] tool = "list_committee_meetings" -> [prefix |-> "/committee-meeting", suffix |-> ""]
      [] tool = "list_committee_meetings_by_congress" -> [prefix |-> "/committee-meeting", suffix |-> ""]
      [] tool = "list_committee_meetings_by_chamber" -> [prefix |-> "/committee-meeting", suffix |-> ""]
      [] tool = "list_members" -> [prefix |-> "/member", suffix |-> ""]
      [] tool = "list_members_by_congress" -> [prefix |-> "/member/congress", suffix |-> ""]
      [] tool = "list_nominations" -> [prefix |-> "/nomination", suffix |-> ""]
      [] tool = "list_nominations_by_congress" -> [prefix |-> "/nomination", suffix |-> ""]
      [] tool = "list_treaties" -> [prefix |-> "/treaty", suffix |-> ""]
      [] tool = "list_treaties_by_congress" -> [prefix |-> "/treaty", suffix |-> ""]
      [] tool = "list_congressional_records" -> [prefix |-> "/congressional-record", suffix |-> ""]
      [] tool = "list_daily_congressional_records" -> [prefix |-> "/daily-congressional-record", suffix |-> "/articles"]
      [] tool = "list_bound_congressional_records" -> [prefix |-> "/bound-congressional-record", suffix |-> ""]
      [] tool = "list_bound_congressional_records_by_year" -> [prefix |-> "/bound-congressional-record", suffix |-> ""]
      [] tool = "list_bound_congressional_records_by_month" -> [prefix |-> "/bound-congressional-record", suffix |-> ""]
      [] tool = "list_bound_congressional_records_by_day" -> [prefix |-> "/bound-congressional-record", suffix |-> ""]
      [] tool = "list_congresses" -> [prefix |-> "/congress", suffix |-> ""]
      [] tool = "list_summaries" -> [prefix |-> "/summaries", suffix |-> ""]
      [] tool = "list_summaries_by_congress" -> [prefix |-> "/summaries", suffix |-> ""]
      [] tool = "list_summaries_by_bill_type" -> [prefix |-> "/summaries", suffix |-> ""]
      [] tool = "list_hearings" -> [prefix |-> "/hearing", suffix |-> ""]
      [] tool = "list_hearings_by_congress" -> [prefix |-> "/hearing", suffix |-> ""]
      [] tool = "list_house_communications" -> [prefix |-> "/house-communication", suffix |-> ""]
      [] tool = "list_house_communications_by_congress" -> [prefix |-> "/house-communication", suffix |-> ""]
      [] tool = "list_senate_communications" -> [prefix |-> "/senate-communication", suffix |-> ""]
      [] tool = "list_senate_communications_by_congress" -> [prefix |-> "/senate-communication", suffix |-> ""]
      [] tool = "list_house_requirements" -> [prefix |-> "/house-requirement", suffix |-> ""]
      [] tool = "list_crs_reports" -> [prefix |-> "/crsreport", suffix |-> ""]

\* every invocation the state records, begun by a tool: its call and the
\* requests sent for it
Recorded ==
    {[call |-> calls[c].call, requests |-> calls[c].requests] :
        c \in {b \in InFlight : calls[b].call.tool \in ToolNames}}
    \cup (IF HasEnded /\ done.call.tool \in ToolNames
          THEN {[call |-> done.call, requests |-> done.requests]}
          ELSE {})

\* the path of a tool's template with the identifying arguments in its slots
ExpectedPath(call) ==
    IF call.tool \in DetailTools
    THEN DetailTemplate(call.tool) \o PathSegments(call.args)
    ELSE IF call.tool \in SubResourceTools
    THEN DetailTemplate(SubResource(call.tool).detail) \o PathSegments(IdArgs(call.args))
         \o "/" \o SubResource(call.tool).suffix
    ELSE ListTemplate(call.tool).prefix \o PathSegments(IdArgs(call.args))
         \o ListTemplate(call.tool).suffix

\* the arguments that go to the query: limit, offset and the filters
QueryArgs(args) == SubSeq(args, Len(IdArgs(args)) + 1, Len(args))

\* the argument arg stands in params with the value the caller gave
PlacedUnchanged(arg, params) ==
    /\ DictHas(params.items, arg[1])
    /\ QueryValue(DictGet(params.items, arg[1])) = QueryValue(arg[2])

\* the one request sent for call carries the path and the params of the call
SentAsCalled(call, requests) ==
    /\ Len(requests) = 1
    /\ requests[1].url = CONGRESS_API_BASE \o call.endpoint
    /\ requests[1].params
          = << <<"api_key", requests[1].params[1][2]>> >>
            \o (IF call.params.none THEN <<>> ELSE call.params.items)

\* C22 as stated: no tool rejects or alters an argument: every value the
\* caller gave (limit and offset always, a filter unless left at None) stands
\* unchanged in the path or the query parameters, and exactly one request is
\* sent.
C22_EveryValuePassedThrough ==
    \A r \in Recorded :
        LET query == QueryArgs(r.call.args)
        IN /\ r.call.endpoint = ExpectedPath(r.call)
           /\ \A i \in 1..Len(query) :
                 (query[i][1] \in {"limit", "offset"} \/ query[i][2] # PyNone)
                     => PlacedUnchanged(query[i], r.call.params)
           /\ SentAsCalled(r.call, r.requests)

\* C22 amended: every identifying argument, limit, offset and every filter
\* given a non-empty value stands unchanged in the path or the query
\* parameters of the tool's one dispatcher call and of the request sent for
\* it, values outside the documented enumerations included; a filter given
\* as the empty string is treated as unset and has no key.
C22_SetValuesPassedThrough ==
    \A r \in Recorded :
        LET query == QueryArgs(r.call.args)
        IN /\ r.call.endpoint = ExpectedPath(r.call)
           /\ \A i \in 1..Len(query) :
                 /\ (query[i][1] \in {"limit", "offset"} \/ IsSet(query[i][2]))
                       => PlacedUnchanged(query[i], r.call.params)
                 /\ (query[i][1] \notin {"limit", "offset"} /\ query[i][2] = PyStr(""))
                       => ~DictHas(r.call.params.items, query[i][1])
           /\ r.requests # <<>> => SentAsCalled(r.call, r.requests)

\* the committees of an unrecognized chamber were requested with a limit
\* above 250 and a negative offset
C22_Witness ==
    \E r \in Recorded :
        /\ r.call.tool = "list_committees_by_chamber"
        /\ r.requests # <<>>
        /\ RequestUrl(r.requests[1])
             = <<"https://api.congress.gov/v3/committee/zz", "?", "api_key", "=", "K1",
                 "&", "limit", "=", "300", "&", "offset", "=", "-1">>

\* text shows the credential key
Shows(text, key) == Truthy(key) /\ Contains(text, <<key.v>>)

\* C24: the credential appears in nothing the dispatcher exposes but the
\* request: not in the text an invocation returns, whatever its outcome, and
\* not in any diagnostic line.
C24_CredentialNotExposed ==
    /\ \A c \in InFlight : \A i \in 1..Len(calls[c].diag) :
          ~Shows(calls[c].diag[i], calls[c].key)
    /\ HasEnded =>
          /\ ~Shows(done.result, done.key)
          /\ ~Shows(done.toolResult, done.key)
          /\ \A i \in 1..Len(done.diag) : ~Shows(done.diag[i], done.key)

\* C23: every invocation whose request was issued ends: the request
\* completes or the timeout ends it, whatever upstream does, and the
\* dispatcher then returns.
C23_InvocationEnds ==
    \A c \in Slots : (calls[c].pc = "awaiting") ~> (calls[c].pc = "idle")

====
